---- MODULE Spec2Model ----
(***************************************************************************)
(* SMSI calendar back end: the calendar query (GET /calendar) with its     *)
(* recurrence expansion, the recurrence-rule generator, the tag parser,    *)
(* the write path of events (POST /events, PUT /events/:id) and the users  *)
(* and auth routes.                                                        *)
(*                                                                         *)
(* Instants are JavaScript Dates.  A Date is a count of milliseconds since *)
(* 1970-01-01T00:00:00Z; it is written here as the pair                    *)
(*   [d |-> whole days since the epoch, ms |-> milliseconds in that day]   *)
(* which denotes d * DayMs + ms exactly.  A duration (a difference of two  *)
(* getTime() values) is written the same way, d possibly negative.         *)
(***************************************************************************)
EXTENDS Integers, Sequences, FiniteSets, TLC

VARIABLES
    events,      \* the events table: a sequence of rows, row i has id i
    now,         \* the server clock, what new Date() returns
    nullsFirst,  \* whether the database puts NULL first under ORDER BY start ASC
    req,         \* the query string of the last GET /calendar and when it came
    resp,        \* the events array of the last GET /calendar reply
    codec,       \* the recurrence codec exercised on its own (SpecCodec)
    event_tags,  \* the event_tags table: a set of rows [event_id, tag]
    write,       \* the last POST /events or PUT /events/:id and its reply
    tagger,      \* parseTags exercised on its own (SpecTags)
    event_categories,  \* the event_categories table: the names, row i has id i
    defaultsInPartial, \* whether the zod release installed applies .default()
                       \* under the .optional() that .partial() adds (4.x) or not (3.x)
    puts,        \* the PUT /events/:id requests being served step by step (SpecRace)
    users,       \* the users table: a sequence of rows, the deleted ones marked
    tokens,      \* the ids of the users a login has issued a token for
    account      \* the last request to /users or /auth and its reply

\* The state of the users and auth routes.
accounts == <<users, tokens, account>>

vars == <<events, now, nullsFirst, req, resp, codec, event_tags, write, tagger,
          event_categories, defaultsInPartial, puts, accounts>>

----------------------------------------------------------------------------
(* Dates *)

DayMs == 24 * 60 * 60 * 1000

\* SQL NULL / JavaScript null in a Date column, and an absent query parameter.
NullDate == [d |-> 0 - 1, ms |-> 0]

At(day, h, mi, s, milli) == [d |-> day, ms |-> ((h * 60 + mi) * 60 + s) * 1000 + milli]

Leq(a, b) == a.d < b.d \/ (a.d = b.d /\ a.ms <= b.ms)
Lt(a, b) == a.d < b.d \/ (a.d = b.d /\ a.ms < b.ms)

Norm(d, ms) == [d |-> d + (ms \div DayMs), ms |-> ms % DayMs]

\* a.getTime() - b.getTime()
Sub(a, b) == Norm(a.d - b.d, a.ms - b.ms)

\* new Date(t.getTime() + dur)
Add(t, dur) == Norm(t.d + dur.d, t.ms + dur.ms)

Zero == [d |-> 0, ms |-> 0]

IsLeap(y) == (y % 4 = 0 /\ y % 100 # 0) \/ y % 400 = 0

DaysInMonth(y, m) ==
    IF m = 2 THEN (IF IsLeap(y) THEN 29 ELSE 28)
    ELSE IF m \in {4, 6, 9, 11} THEN 30 ELSE 31

\* Date.UTC(y, m - 1, d) in whole days (proleptic Gregorian calendar, the
\* year taken to begin in March so that the leap day comes last).
DaysOfEra(era, yoe, doy) ==
    era * 146097 + yoe * 365 + yoe \div 4 - yoe \div 100 + doy - 719468

DaysOfMarchYear(yy, mp, d) ==
    DaysOfEra(yy \div 400, yy % 400, (153 * mp + 2) \div 5 + d - 1)

DaysFromCivil(y, m, d) ==
    DaysOfMarchYear(IF m <= 2 THEN y - 1 ELSE y, IF m > 2 THEN m - 3 ELSE m + 9, d)

\* getUTCFullYear(), getUTCMonth() + 1, getUTCDate() of a day number.
CivilOfMonth(era, yoe, doy, mp) ==
    [y |-> yoe + era * 400 + (IF mp < 10 THEN 0 ELSE 1),
     m |-> IF mp < 10 THEN mp + 3 ELSE mp - 9,
     d |-> doy - (153 * mp + 2) \div 5 + 1]

CivilOfDayOfYear(era, yoe, doy) == CivilOfMonth(era, yoe, doy, (5 * doy + 2) \div 153)

CivilOfYearOfEra(era, doe, yoe) ==
    CivilOfDayOfYear(era, yoe, doe - (365 * yoe + yoe \div 4 - yoe \div 100))

CivilOfEra(era, doe) ==
    CivilOfYearOfEra(era, doe, (doe - doe \div 1460 + doe \div 36524 - doe \div 146096) \div 365)

CivilFromDays(z) == CivilOfEra((z + 719468) \div 146097, (z + 719468) % 146097)

\* new Date(t.setFullYear(t.getFullYear() + 1)): same month, day and time of
\* day one year on; 29 February overflows to 1 March (server clock in UTC).
SameDayOfYear(c, y, ms) ==
    IF c.d <= DaysInMonth(y, c.m)
    THEN [d |-> DaysFromCivil(y, c.m, c.d), ms |-> ms]
    ELSE [d |-> DaysFromCivil(y, c.m + 1, 1), ms |-> ms]

NextYear(c, ms) == SameDayOfYear(c, c.y + 1, ms)

AddYear(t) == NextYear(CivilFromDays(t.d), t.ms)

----------------------------------------------------------------------------
(* Rule strings.  A rule string "K1=V1;K2=V2" is the sequence of its       *)
(* ';'-separated parts; a part is [k, s, n]: the key, the value when it is *)
(* a word, and the value's digit groups when it is a number or timestamp.  *)

NullRule == <<[k |-> "null", s |-> "", n |-> <<>>]>>

Part(k, s, n) == [k |-> k, s |-> s, n |-> n]

\* IsoBasic with the month taken zero-based, as getUTCMonth() gives it.
IsoBasicZeroBasedMonth(t) ==
    <<CivilFromDays(t.d).y, CivilFromDays(t.d).m - 1, CivilFromDays(t.d).d,
      (t.ms \div 1000) \div 3600, ((t.ms \div 1000) \div 60) % 60, (t.ms \div 1000) % 60>>

\* toISOString().replace(/[-:]/g, "").split(".")[0]: the digit groups
\* YYYY MM DD T hh mm ss of the instant in UTC; the milliseconds are cut off.
IsoBasic(t) ==
    LET c   == CivilFromDays(t.d)
        sec == t.ms \div 1000
    IN  <<c.y, c.m, c.d, sec \div 3600, (sec \div 60) % 60, sec % 60>>

\* repeatMap with an entry for daily.
repeatMapWithDaily(repeatType) ==
    CASE repeatType = "weekly"     -> <<Part("FREQ", "WEEKLY", <<>>)>>
      [] repeatType = "monthly"    -> <<Part("FREQ", "MONTHLY", <<>>)>>
      [] repeatType = "quarterly"  -> <<Part("FREQ", "MONTHLY", <<>>), Part("INTERVAL", "", <<3>>)>>
      [] repeatType = "semestrial" -> <<Part("FREQ", "MONTHLY", <<>>), Part("INTERVAL", "", <<6>>)>>
      [] repeatType = "yearly"     -> <<Part("FREQ", "YEARLY", <<>>)>>
      [] repeatType = "daily"      -> <<Part("FREQ", "DAILY", <<>>)>>
      [] OTHER                     -> <<>>

repeatMap(repeatType) ==
    CASE repeatType = "weekly"     -> <<Part("FREQ", "WEEKLY", <<>>)>>
      [] repeatType = "monthly"    -> <<Part("FREQ", "MONTHLY", <<>>)>>
      [] repeatType = "quarterly"  -> <<Part("FREQ", "MONTHLY", <<>>), Part("INTERVAL", "", <<3>>)>>
      [] repeatType = "semestrial" -> <<Part("FREQ", "MONTHLY", <<>>), Part("INTERVAL", "", <<6>>)>>
      [] repeatType = "yearly"     -> <<Part("FREQ", "YEARLY", <<>>)>>
      [] OTHER                     -> <<>>

generateRRule(repeatType, repeatEndDate) ==
    IF repeatType = "none" THEN NullRule
    ELSE LET rruleBase == repeatMap(repeatType)
             untilPart == IF repeatEndDate # NullDate
                          THEN <<Part("UNTIL", "Z", IsoBasic(repeatEndDate))>>
                          ELSE <<>>
         IN  IF rruleBase = <<>> THEN NullRule ELSE rruleBase \o untilPart

----------------------------------------------------------------------------
(* The rrule library as GET /calendar uses it: RRule.parseString, then     *)
(* new RRule(options) with dtstart set to the event's start, then          *)
(* rule.between(queryStart, queryEnd, true).                               *)

Frequencies == {"YEARLY", "MONTHLY", "WEEKLY", "DAILY"}
KnownKeys == {"FREQ", "INTERVAL", "UNTIL"}

\* The UNTIL value's digit groups read back with Date.UTC.
untilStringToDate(n) ==
    [d |-> DaysFromCivil(n[1], n[2], n[3]), ms |-> ((n[4] * 60 + n[5]) * 60 + n[6]) * 1000]

\* RRule.parseString: the options the parts set (a later part overrides an
\* earlier one); a part with an unknown key throws.  An unknown FREQ word
\* leaves freq undefined, which new RRule then rejects.
parseString(rrule) ==
    LET at(k)   == {i \in 1..Len(rrule) : rrule[i].k = k}
        last(k) == rrule[CHOOSE i \in at(k) : \A j \in at(k) : j <= i]
    IN  [threw    |-> \E i \in 1..Len(rrule) : rrule[i].k \notin KnownKeys,
         freq     |-> IF at("FREQ") = {} THEN "YEARLY"
                      ELSE IF last("FREQ").s \in Frequencies THEN last("FREQ").s
                      ELSE "undefined",
         interval |-> IF at("INTERVAL") = {} THEN 1 ELSE last("INTERVAL").n[1],
         until    |-> IF at("UNTIL") = {} THEN NullDate
                      ELSE untilStringToDate(last("UNTIL").n)]

\* The period of the series that begins n base periods after dtstart's: its
\* first day, and the day in it that the rule selects (WEEKLY: dtstart's
\* weekday; MONTHLY: dtstart's day of the month; YEARLY: dtstart's month and
\* day), when that day exists.  c is dtstart's calendar date.
DayInMonth(y, m, dom) ==
    [first |-> DaysFromCivil(y, m, 1), exists |-> dom <= DaysInMonth(y, m),
     day |-> DaysFromCivil(y, m, dom)]

MonthAt(mi, dom) == DayInMonth(mi \div 12, (mi % 12) + 1, dom)

DayAt(day) == [first |-> day, exists |-> TRUE, day |-> day]

PeriodAt(options, c, n) ==
    CASE options.freq = "DAILY"   -> DayAt(options.dtstart.d + n)
      [] options.freq = "WEEKLY"  -> DayAt(options.dtstart.d + 7 * n)
      [] options.freq = "MONTHLY" -> MonthAt(c.y * 12 + (c.m - 1) + n, c.d)
      [] options.freq = "YEARLY"  -> DayInMonth(c.y + n, c.m, c.d)

Period(options, k) ==
    PeriodAt(options, CivilFromDays(options.dtstart.d), options.interval * k)

\* rule.between(after, before, inc): the library walks the periods from
\* dtstart's on and yields, in ascending order, each selected instant (at
\* dtstart's time of day, milliseconds included) that is not before dtstart,
\* not past UNTIL and inside [after, before]; it stops at the first instant
\* past UNTIL or past `before`, so no period that begins after `before` is
\* visited.  Periods is the number of periods visited.
PeriodsTo(options, c, cb, before) ==
    CASE options.freq = "DAILY" ->
           (before.d - options.dtstart.d) \div options.interval + 1
      [] options.freq = "WEEKLY" ->
           (before.d - options.dtstart.d) \div (7 * options.interval) + 1
      [] options.freq = "MONTHLY" ->
           ((cb.y * 12 + cb.m) - (c.y * 12 + c.m)) \div options.interval + 1
      [] options.freq = "YEARLY" ->
           (cb.y - c.y) \div options.interval + 1

Periods(options, before) ==
    PeriodsTo(options, CivilFromDays(options.dtstart.d), CivilFromDays(before.d), before)

Instant(options, p) == [d |-> p.day, ms |-> options.dtstart.ms]

Accepts(after, before, inc, t) ==
    /\ IF inc THEN Leq(after, t) ELSE Lt(after, t)
    /\ IF inc THEN Leq(t, before) ELSE Lt(t, before)

\* Yields with UNTIL taken as an open bound.
YieldsBeforeUntil(options, after, before, inc, p) ==
    /\ p.exists
    /\ options.until = NullDate \/ Lt(Instant(options, p), options.until)
    /\ Leq(options.dtstart, Instant(options, p))
    /\ Accepts(after, before, inc, Instant(options, p))

Yields(options, after, before, inc, p) ==
    /\ p.exists
    /\ options.until = NullDate \/ Leq(Instant(options, p), options.until)
    /\ Leq(options.dtstart, Instant(options, p))
    /\ Accepts(after, before, inc, Instant(options, p))

InstantsOf(options, ks) == [i \in 1..Len(ks) |-> Instant(options, Period(options, ks[i]))]

\* between with the endpoints of [after, before] left out whatever inc is.
betweenExclusive(options, after, before, inc) ==
    LET yielded(k) == Yields(options, after, before, FALSE, Period(options, k))
    IN  IF options.interval = 0 THEN <<>>
        ELSE InstantsOf(options,
                 SelectSeq([i \in 1..Periods(options, before) |-> i - 1], yielded))

between(options, after, before, inc) ==
    LET yielded(k) == Yields(options, after, before, inc, Period(options, k))
    IN  IF options.interval = 0 THEN <<>>
        ELSE InstantsOf(options,
                 SelectSeq([i \in 1..Periods(options, before) |-> i - 1], yielded))

----------------------------------------------------------------------------
(* parseTags.  A string is the sequence of its characters.                 *)

Quote == "\""
Apostrophe == "'"

\* The characters \w matches among those the inputs are built from.
WordChars == {"1"}

\* String.prototype.trim
trim(s) ==
    IF \A i \in 1..Len(s) : s[i] = " " THEN <<>>
    ELSE SubSeq(s, CHOOSE i \in 1..Len(s) : s[i] # " " /\ \A j \in 1..(i - 1) : s[j] = " ",
                   CHOOSE i \in 1..Len(s) : s[i] # " " /\ \A j \in (i + 1)..Len(s) : s[j] = " ")

startsWith(s, c) == Len(s) > 0 /\ s[1] = c
endsWith(s, c) == Len(s) > 0 /\ s[Len(s)] = c
includes(s, c) == \E i \in 1..Len(s) : s[i] = c

\* The indices of s that satisfy at, ascending.
Indices(s, c) == LET at(i) == s[i] = c IN SelectSeq([i \in 1..Len(s) |-> i], at)

\* The first index from i on that holds no blank (Len(s) + 1: none).
skipWs(s, i) == CHOOSE j \in i..(Len(s) + 1) :
                    /\ j = Len(s) + 1 \/ s[j] # " "
                    /\ \A k \in i..(j - 1) : s[k] = " "

\* The first index from i on that holds no digit.
skipDigits(s, i) == CHOOSE j \in i..(Len(s) + 1) :
                        /\ j = Len(s) + 1 \/ s[j] \notin WordChars
                        /\ \A k \in i..(j - 1) : s[k] \in WordChars

\* The first index from i on that holds a double quote (Len(s) + 1: none).
closingQuote(s, i) == CHOOSE j \in i..(Len(s) + 1) :
                          /\ j = Len(s) + 1 \/ s[j] = Quote
                          /\ \A k \in i..(j - 1) : s[k] # Quote

SyntaxError == [ok |-> FALSE, elems |-> <<>>, str |-> <<>>, next |-> 0]

\* elems joined with "," : String(array)
RECURSIVE join(_, _)
join(elems, i) ==
    IF i > Len(elems) THEN <<>>
    ELSE elems[i] \o (IF i < Len(elems) THEN <<",">> ELSE <<>>) \o join(elems, i + 1)

\* JSON values read at index i (blanks before it skipped): ok, String(value),
\* the String of each element when it is an array, and the index after it.
RECURSIVE parseValue(_, _)
RECURSIVE parseElements(_, _, _)

\* After "[" or ",": an element at i, then "," or "]".
parseElementsAfter(s, v, k, elems) ==
    IF ~v.ok \/ k > Len(s) THEN SyntaxError
    ELSE IF s[k] = "," THEN parseElements(s, skipWs(s, k + 1), Append(elems, v.str))
    ELSE IF s[k] = "]"
         THEN [ok |-> TRUE, elems |-> Append(elems, v.str),
               str |-> join(Append(elems, v.str), 1), next |-> k + 1]
    ELSE SyntaxError

parseElements(s, i, elems) ==
    parseElementsAfter(s, parseValue(s, i), skipWs(s, parseValue(s, i).next), elems)

parseValue(s, i) ==
    IF i > Len(s) THEN SyntaxError
    ELSE IF s[i] = Quote
         THEN IF closingQuote(s, i + 1) > Len(s) THEN SyntaxError
              ELSE [ok |-> TRUE, elems |-> <<>>, str |-> SubSeq(s, i + 1, closingQuote(s, i + 1) - 1),
                    next |-> closingQuote(s, i + 1) + 1]
    ELSE IF s[i] \in WordChars
         THEN [ok |-> TRUE, elems |-> <<>>, str |-> SubSeq(s, i, skipDigits(s, i) - 1),
               next |-> skipDigits(s, i)]
    ELSE IF s[i] = "["
         THEN IF skipWs(s, i + 1) <= Len(s) /\ s[skipWs(s, i + 1)] = "]"
              THEN [ok |-> TRUE, elems |-> <<>>, str |-> <<>>, next |-> skipWs(s, i + 1) + 1]
              ELSE parseElements(s, skipWs(s, i + 1), <<>>)
    ELSE SyntaxError

\* JSON.parse of a text that begins with "[": the value, then only blanks.
JSONparseEnd(s, v) == IF v.ok /\ skipWs(s, v.next) > Len(s) THEN v ELSE SyntaxError
JSONparse(s) == JSONparseEnd(s, parseValue(s, skipWs(s, 1)))

\* parsed.map(t => String(t).trim()).filter(t => t.length > 0)
trimmedNonEmpty(parts) ==
    LET kept(t) == Len(t) > 0 IN SelectSeq([i \in 1..Len(parts) |-> trim(parts[i])], kept)

\* finalInput.match(/#[\wÀ-ÿ]+/g) with the "#" sliced off each match: the
\* runs of word characters that follow a "#".
hashtags(s) ==
    LET tagged(i) == s[i] = "#" /\ i < Len(s) /\ s[i + 1] \in WordChars
        starts    == SelectSeq([i \in 1..Len(s) |-> i], tagged)
    IN  [k \in 1..Len(starts) |-> SubSeq(s, starts[k] + 1, skipDigits(s, starts[k] + 1) - 1)]

\* finalInput.split(",")
split(s) ==
    LET cuts == <<0>> \o Indices(s, ",") \o <<Len(s) + 1>>
    IN  [k \in 1..(Len(cuts) - 1) |-> SubSeq(s, cuts[k] + 1, cuts[k + 1] - 1)]

\* finalInput.slice(1, -1) when it starts and ends with the same quote
unquoted(s) ==
    IF (startsWith(s, Quote) /\ endsWith(s, Quote))
       \/ (startsWith(s, Apostrophe) /\ endsWith(s, Apostrophe))
    THEN SubSeq(s, 2, Len(s) - 1)
    ELSE s

Returned(tags) == [threw |-> FALSE, tags |-> tags]

\* The hashtag, comma and whole-string conventions, in that order.
afterJSON(finalInput) ==
    IF includes(finalInput, "#") THEN Returned(hashtags(finalInput))
    ELSE IF includes(finalInput, ",") THEN Returned(trimmedNonEmpty(split(finalInput)))
    ELSE Returned(<<trim(unquoted(finalInput))>>)

\* parseTagsTrimmed with JSON.parse outside any try block.
parseTagsTrimmedNoCatch(finalInput) ==
    IF startsWith(finalInput, "[") /\ endsWith(finalInput, "]")
    THEN IF JSONparse(finalInput).ok
         THEN Returned(trimmedNonEmpty(JSONparse(finalInput).elems))
         ELSE [threw |-> TRUE, tags |-> <<>>]
    ELSE afterJSON(finalInput)

\* parseTags from finalInput on.
parseTagsTrimmed(finalInput) ==
    IF startsWith(finalInput, "[") /\ endsWith(finalInput, "]") /\ JSONparse(finalInput).ok
    THEN Returned(trimmedNonEmpty(JSONparse(finalInput).elems))
    ELSE afterJSON(finalInput)

parseTags(input) ==
    IF Len(trim(input)) = 0 THEN Returned(<<>>) ELSE parseTagsTrimmed(trim(input))

----------------------------------------------------------------------------
(* GET /calendar *)

Occ(event, start, end, recurrence_id) ==
    [id |-> event.id, start |-> start, end |-> end, recurrence_id |-> recurrence_id]

\* Prisma range filter { gte: lo, lte: hi } on a nullable column.
Within(x, lo, hi) == x # NullDate /\ Leq(lo, x) /\ Leq(x, hi)

\* whereClause without its last entry, { start: null }.
whereClauseNoUnscheduled(e, queryStart, queryEnd) ==
    \/ Within(e.start, queryStart, queryEnd) /\ e.rrule = NullRule
    \/ Within(e.end, queryStart, queryEnd) /\ e.rrule = NullRule
    \/ /\ e.start # NullDate /\ Leq(e.start, queryStart)
       /\ e.end # NullDate /\ Leq(queryEnd, e.end)
       /\ e.rrule = NullRule
    \/ /\ e.rrule # NullRule
       /\ e.start # NullDate /\ Leq(e.start, queryEnd)
       /\ \/ e.repeat_end_date # NullDate /\ Leq(queryStart, e.repeat_end_date)
          \/ e.repeat_end_date = NullDate

\* whereClause without its second entry, the one on end.
whereClauseNoEnd(e, queryStart, queryEnd) ==
    \/ Within(e.start, queryStart, queryEnd) /\ e.rrule = NullRule
    \/ /\ e.start # NullDate /\ Leq(e.start, queryStart)
       /\ e.end # NullDate /\ Leq(queryEnd, e.end)
       /\ e.rrule = NullRule
    \/ /\ e.rrule # NullRule
       /\ e.start # NullDate /\ Leq(e.start, queryEnd)
       /\ \/ e.repeat_end_date # NullDate /\ Leq(queryStart, e.repeat_end_date)
          \/ e.repeat_end_date = NullDate
    \/ e.start = NullDate

\* whereClause whose entry for recurring events wants the event's own start
\* inside the window.
whereClauseRecurringInWindow(e, queryStart, queryEnd) ==
    \/ Within(e.start, queryStart, queryEnd) /\ e.rrule = NullRule
    \/ Within(e.end, queryStart, queryEnd) /\ e.rrule = NullRule
    \/ /\ e.start # NullDate /\ Leq(e.start, queryStart)
       /\ e.end # NullDate /\ Leq(queryEnd, e.end)
       /\ e.rrule = NullRule
    \/ /\ e.rrule # NullRule
       /\ Within(e.start, queryStart, queryEnd)
       /\ \/ e.repeat_end_date # NullDate /\ Leq(queryStart, e.repeat_end_date)
          \/ e.repeat_end_date = NullDate
    \/ e.start = NullDate

\* whereClause whose entry for recurring events wants the repeat end date
\* past the end of the window.
whereClauseRepeatEndPastWindow(e, queryStart, queryEnd) ==
    \/ Within(e.start, queryStart, queryEnd) /\ e.rrule = NullRule
    \/ Within(e.end, queryStart, queryEnd) /\ e.rrule = NullRule
    \/ /\ e.start # NullDate /\ Leq(e.start, queryStart)
       /\ e.end # NullDate /\ Leq(queryEnd, e.end)
       /\ e.rrule = NullRule
    \/ /\ e.rrule # NullRule
       /\ e.start # NullDate /\ Leq(e.start, queryEnd)
       /\ \/ e.repeat_end_date # NullDate /\ Leq(queryEnd, e.repeat_end_date)
          \/ e.repeat_end_date = NullDate
    \/ e.start = NullDate

\* whereClause.OR of a request that carries both start and end.
whereClause(e, queryStart, queryEnd) ==
    \/ Within(e.start, queryStart, queryEnd) /\ e.rrule = NullRule
    \/ Within(e.end, queryStart, queryEnd) /\ e.rrule = NullRule
    \/ /\ e.start # NullDate /\ Leq(e.start, queryStart)
       /\ e.end # NullDate /\ Leq(queryEnd, e.end)
       /\ e.rrule = NullRule
    \/ /\ e.rrule # NullRule
       /\ e.start # NullDate /\ Leq(e.start, queryEnd)
       /\ \/ e.repeat_end_date # NullDate /\ Leq(queryStart, e.repeat_end_date)
          \/ e.repeat_end_date = NullDate
    \/ e.start = NullDate

\* ORDER BY start ASC: NULLs at the end the database puts them; rows with
\* equal start in any order (the query names no second sort key).
StartAsc(a, b) ==
    IF a.start = NullDate \/ b.start = NullDate
    THEN a.start = b.start \/ (IF nullsFirst THEN a.start = NullDate ELSE b.start = NullDate)
    ELSE Leq(a.start, b.start)

\* prisma.events.findMany({ where, orderBy: { start: "asc" } }): the
\* sequences of the selected rows that the database may return.
findMany(selected) ==
    LET n == Cardinality(selected)
    IN  {rows \in [1..n -> selected] :
            /\ \A i, j \in 1..n : i # j => rows[i] # rows[j]
            /\ \A i, j \in 1..n : i < j => StartAsc(rows[i], rows[j])}

\* instances with the event's own end kept on every occurrence.
instancesKeepEnd(event, dates, duration) ==
    [i \in 1..Len(dates) |-> Occ(event, dates[i], event.end, dates[i])]

\* The occurrences pushed for the dates of a recurring event.
instances(event, dates, duration) ==
    [i \in 1..Len(dates) |-> Occ(event, dates[i], Add(dates[i], duration), dates[i])]

newRRule(options, dtstart) ==
    [threw |-> options.threw \/ options.freq \notin Frequencies,
     freq |-> options.freq, interval |-> options.interval,
     until |-> options.until, dtstart |-> dtstart]

\* tryExpand with a catch block that pushes nothing.
tryExpandDropping(event, rule, queryStart, queryEnd) ==
    IF rule.threw
    THEN <<>>
    ELSE instances(event, between(rule, queryStart, queryEnd, TRUE),
                   IF event.end # NullDate THEN Sub(event.end, event.start) ELSE Zero)

\* The try block: the occurrences pushed, or the event itself when
\* parseString, new RRule or between threw.
tryExpand(event, rule, queryStart, queryEnd) ==
    IF rule.threw
    THEN <<Occ(event, event.start, event.end, event.recurrence_id)>>
    ELSE instances(event, between(rule, queryStart, queryEnd, TRUE),
                   IF event.end # NullDate THEN Sub(event.end, event.start) ELSE Zero)

\* The body of the loop over events: what one event pushes on expandedEvents.
expand(event, queryStart, queryEnd) ==
    IF event.rrule # NullRule /\ event.start # NullDate
    THEN tryExpand(event, newRRule(parseString(event.rrule), event.start), queryStart, queryEnd)
    ELSE <<Occ(event, event.start, event.end, event.recurrence_id)>>

RECURSIVE expandAll(_, _, _, _)
expandAll(rows, i, queryStart, queryEnd) ==
    IF i > Len(rows) THEN <<>>
    ELSE expand(rows[i], queryStart, queryEnd) \o expandAll(rows, i + 1, queryStart, queryEnd)

\* queryStart and queryEnd of a request received at time t.
queryStartOf(start, t) == IF start # NullDate THEN start ELSE t
queryEndOf(end, t) == IF end # NullDate THEN end ELSE AddYear(t)

\* The rows the where clause selects from the table `rows`: every row unless
\* the request carries both start and end.
selectedOf(rows, start, end, t) ==
    IF start # NullDate /\ end # NullDate
    THEN {e \in rows : whereClause(e, queryStartOf(start, t), queryEndOf(end, t))}
    ELSE rows

\* The replies GET /calendar?start=..&end=.. may give at time t over `rows`.
repliesOf(rows, start, end, t) ==
    {expandAll(found, 1, queryStartOf(start, t), queryEndOf(end, t)) :
        found \in findMany(selectedOf(rows, start, end, t))}

Rows == {events[i] : i \in 1..Len(events)}

GetCalendar(start, end) ==
    /\ \E expandedEvents \in repliesOf(Rows, start, end, now) : resp' = expandedEvents
    /\ req' = [start |-> start, end |-> end, at |-> now, sent |-> TRUE]
    /\ UNCHANGED <<events, now, nullsFirst, codec, event_tags, write, tagger,
                 event_categories, defaultsInPartial, puts, accounts>>

----------------------------------------------------------------------------
(* The state space *)

MaxEvents == 2

Day_2023_12_25 == DaysFromCivil(2023, 12, 25)
Day_2024_01_01 == DaysFromCivil(2024, 1, 1)
Day_2024_01_15 == DaysFromCivil(2024, 1, 15)
Day_2024_01_22 == DaysFromCivil(2024, 1, 22)
Day_2024_01_31 == DaysFromCivil(2024, 1, 31)
Day_2024_02_29 == DaysFromCivil(2024, 2, 29)
Day_2024_03_01 == DaysFromCivil(2024, 3, 1)
Day_2024_03_05 == DaysFromCivil(2024, 3, 5)
Day_2024_03_10 == DaysFromCivil(2024, 3, 10)
Day_2024_03_31 == DaysFromCivil(2024, 3, 31)
Day_2024_04_15 == DaysFromCivil(2024, 4, 15)

Midnight(day) == At(day, 0, 0, 0, 0)

\* (start, end) of the stored events.
Timings ==
    LET a == Midnight(Day_2024_01_01)
        b == At(Day_2024_01_31, 9, 0, 0, 500)
        c == Midnight(Day_2024_03_10)
        dur == [d |-> 1, ms |-> 60 * 60 * 1000]
    IN  [unplanned |-> <<NullDate, NullDate>>,
         monday    |-> <<a, Add(a, dur)>>,
         monthEnd  |-> <<b, NullDate>>,
         point     |-> <<c, c>>,
         tail      |-> <<Midnight(Day_2023_12_25), Midnight(Day_2024_01_15)>>,
         span      |-> <<Midnight(Day_2023_12_25), Midnight(Day_2024_04_15)>>]

Row(timing, repeat_type, repeat_end_date, rrule) ==
    [start |-> timing[1], end |-> timing[2], repeat_type |-> repeat_type,
     repeat_end_date |-> repeat_end_date, rrule |-> rrule, recurrence_id |-> NullDate]

\* A row as the write path stores it: the rule generated from the repeat
\* type and the repeat end date.
Written(timing, repeat_type, repeat_end_date) ==
    Row(timing, repeat_type, repeat_end_date, generateRRule(repeat_type, repeat_end_date))

\* A row whose rrule text does not decode.
Corrupt(timing) == Row(timing, "weekly", NullDate, <<Part("FREQ", "FORTNIGHTLY", <<>>)>>)

RowDomain ==
    LET u1 == Midnight(Day_2024_01_15)
        u2 == At(Day_2024_03_31, 9, 0, 0, 500)
    IN  {Written(Timings[t], "none", NullDate) :
            t \in {"unplanned", "monday", "point", "tail", "span"}}
        \cup {Written(Timings.monday, "weekly", NullDate),
              Written(Timings.monday, "weekly", u1),
              Written(Timings.monday, "yearly", NullDate),
              Written(Timings.monthEnd, "monthly", u2),
              Written(Timings.monthEnd, "quarterly", NullDate),
              Written(Timings.unplanned, "weekly", NullDate)}
        \cup {Corrupt(Timings.monthEnd), Corrupt(Timings.tail)}

RECURSIVE SetToSeq(_)
SetToSeq(S) ==
    IF S = {} THEN <<>>
    ELSE LET x == CHOOSE y \in S : TRUE IN <<x>> \o SetToSeq(S \ {x})

RowList == SetToSeq(RowDomain)

\* The tables of at most MaxEvents rows; ids are the positions.
Stores ==
    UNION {{[i \in 1..n |-> [id |-> i] @@ RowList[ix[i]]] :
                ix \in {f \in [1..n -> 1..Len(RowList)] : \A i, j \in 1..n : i <= j => f[i] <= f[j]}} :
           n \in 0..MaxEvents}

Clock == <<At(Day_2024_02_29, 12, 0, 0, 0), At(Day_2024_03_05, 8, 30, 0, 0)>>

\* The query strings sent: <<start, end>>, NullDate for a parameter left out.
Requests ==
    {<<NullDate, NullDate>>,
     <<Midnight(Day_2024_01_01), NullDate>>,
     <<NullDate, Midnight(Day_2024_03_31)>>,
     <<Midnight(Day_2024_01_01), Midnight(Day_2024_01_22)>>,
     <<Midnight(Day_2024_01_01), Midnight(Day_2024_03_31)>>,
     <<Midnight(Day_2024_03_01), Midnight(Day_2024_03_31)>>}

NoOptions == [threw |-> FALSE, freq |-> "", interval |-> 0, until |-> NullDate, dtstart |-> NullDate]

IdleCodec == [pc |-> "idle", repeatType |-> "none", repeatEndDate |-> NullDate,
              rrule |-> NullRule, rule |-> NoOptions]

NoReq == [start |-> NullDate, end |-> NullDate, at |-> NullDate, sent |-> FALSE]

\* A request body without any field.  A text field (title, description,
\* status, category, tags) is a sequence of characters.
NoData == [has |-> {}, startDate |-> NullDate, endDate |-> NullDate, repeat |-> "",
           repeatEndDate |-> NullDate, isUnplanned |-> FALSE, tags |-> <<>>,
           title |-> <<>>, description |-> <<>>, status |-> <<>>, allDay |-> FALSE,
           alert |-> "", category |-> <<>>]

NoWrite == [op |-> "none", id |-> 0, data |-> NoData, status |-> 0, error |-> ""]

\* No PUT /events/:id being served.
NoPuts == <<>>

\* No request to /users or /auth served yet.
NoAccount == [op |-> "none", id |-> 0, status |-> 0, mail |-> "none", token |-> FALSE,
              secret |-> <<>>]

IdleTagger == [pc |-> "idle", input |-> <<>>, tags |-> <<>>, threw |-> FALSE]

Init ==
    /\ events \in Stores
    /\ now = Clock[1]
    /\ nullsFirst \in BOOLEAN
    /\ req = NoReq
    /\ resp = <<>>
    /\ codec = IdleCodec
    /\ event_tags = {}
    /\ write = NoWrite
    /\ tagger = IdleTagger
    /\ event_categories = <<>>
    /\ defaultsInPartial = FALSE
    /\ puts = NoPuts
    /\ users = <<>>
    /\ tokens = {}
    /\ account = NoAccount

Tick ==
    /\ \E i \in 1..(Len(Clock) - 1) : now = Clock[i] /\ now' = Clock[i + 1]
    /\ UNCHANGED <<events, nullsFirst, req, resp, codec, event_tags, write, tagger,
                 event_categories, defaultsInPartial, puts, accounts>>

Next ==
    \/ \E q \in Requests : GetCalendar(q[1], q[2])
    \/ Tick

Spec == Init /\ [][Next]_vars

----------------------------------------------------------------------------
(* The recurrence codec on its own: a rule is generated from a repeat type *)
(* and a repeat end date as the write path does, then decoded as the       *)
(* calendar query does, anchored at some start.                            *)

RepeatTypes == {"none", "daily", "weekly", "monthly", "quarterly", "semestrial", "yearly",
                "fortnightly"}

RepeatEndDates ==
    {NullDate,
     Midnight(Day_2024_01_15),
     At(Day_2024_01_15, 0, 0, 0, 1),
     At(Day_2024_02_29, 23, 59, 59, 999),
     At(Day_2024_03_31, 9, 0, 0, 500),
     At(DaysFromCivil(2024, 12, 31), 12, 30, 15, 250),
     At(DaysFromCivil(2025, 1, 1), 0, 0, 1, 0)}

Anchors == {Midnight(Day_2024_01_01), At(Day_2024_01_31, 9, 0, 0, 500)}

InitCodec ==
    /\ events = <<>>
    /\ now = Clock[1]
    /\ nullsFirst = TRUE
    /\ req = NoReq
    /\ resp = <<>>
    /\ codec \in [pc : {"input"}, repeatType : RepeatTypes, repeatEndDate : RepeatEndDates,
                  rrule : {NullRule}, rule : {NoOptions}]
    /\ event_tags = {}
    /\ write = NoWrite
    /\ tagger = IdleTagger
    /\ event_categories = <<>>
    /\ defaultsInPartial = FALSE
    /\ puts = NoPuts
    /\ users = <<>>
    /\ tokens = {}
    /\ account = NoAccount

Encode ==
    /\ codec.pc = "input"
    /\ codec' = [codec EXCEPT !.pc = "encoded",
                              !.rrule = generateRRule(codec.repeatType, codec.repeatEndDate)]
    /\ UNCHANGED <<events, now, nullsFirst, req, resp, event_tags, write, tagger,
                 event_categories, defaultsInPartial, puts, accounts>>

Decode(dtstart) ==
    /\ codec.pc = "encoded"
    /\ codec.rrule # NullRule
    /\ codec' = [codec EXCEPT !.pc = "decoded",
                              !.rule = newRRule(parseString(codec.rrule), dtstart)]
    /\ UNCHANGED <<events, now, nullsFirst, req, resp, event_tags, write, tagger,
                 event_categories, defaultsInPartial, puts, accounts>>

NextCodec ==
    \/ Encode
    \/ \E dtstart \in Anchors : Decode(dtstart)

SpecCodec == InitCodec /\ [][NextCodec]_vars

----------------------------------------------------------------------------
(* parseTags on its own: an input string is drawn, then parsed.            *)

MaxTagLen == 5

TagChars == {" ", "1", ",", "#", "[", "]", Quote, Apostrophe}

Strings == UNION {[1..n -> TagChars] : n \in 0..MaxTagLen}

InitTags ==
    /\ events = <<>>
    /\ now = Clock[1]
    /\ nullsFirst = TRUE
    /\ req = NoReq
    /\ resp = <<>>
    /\ codec = IdleCodec
    /\ event_tags = {}
    /\ write = NoWrite
    /\ tagger \in [pc : {"input"}, input : Strings, tags : {<<>>}, threw : {FALSE}]
    /\ event_categories = <<>>
    /\ defaultsInPartial = FALSE
    /\ puts = NoPuts
    /\ users = <<>>
    /\ tokens = {}
    /\ account = NoAccount

ParseTags ==
    /\ tagger.pc = "input"
    /\ tagger' = [tagger EXCEPT !.pc = "parsed",
                                !.tags = parseTags(tagger.input).tags,
                                !.threw = parseTags(tagger.input).threw]
    /\ UNCHANGED <<events, now, nullsFirst, req, resp, codec, event_tags, write,
                 event_categories, defaultsInPartial, puts, accounts>>

NextTags == ParseTags

SpecTags == InitTags /\ [][NextTags]_vars

----------------------------------------------------------------------------
(* The write path: POST /events and PUT /events/:id.                       *)
(*                                                                         *)
(* A request body is a record of the fields modelled, with `has` the set   *)
(* of the fields the body carries (data.f !== undefined).  A date field    *)
(* that is there but holds the empty string is written NullDate.           *)

MaxStored == 1

Undefined == "undefined"

repeatTypeMap(label) ==
    CASE label = "Jamais"           -> "none"
      [] label = "Chaque semaine"   -> "weekly"
      [] label = "Chaque mois"      -> "monthly"
      [] label = "Chaque trimestre" -> "quarterly"
      [] label = "Chaque semestre"  -> "semestrial"
      [] label = "Chaque année"     -> "yearly"
      [] label = "Hebdomadaire"     -> "weekly"
      [] label = "Mensuel"          -> "monthly"
      [] label = "Trimestriel"      -> "quarterly"
      [] label = "Semestriel"       -> "semestrial"
      [] label = "Annuel"           -> "yearly"
      [] label = "Quotidien"        -> "daily"
      [] label = "none"             -> "none"
      [] label = "weekly"           -> "weekly"
      [] label = "monthly"          -> "monthly"
      [] label = "quarterly"        -> "quarterly"
      [] label = "semestrial"       -> "semestrial"
      [] label = "yearly"           -> "yearly"
      [] OTHER                      -> Undefined

\* repeatTypeMap[label] ?? "none"
repeatTypeOf(label) == IF repeatTypeMap(label) = Undefined THEN "none" ELSE repeatTypeMap(label)

\* The values the repeat_type column is declared with.
RepeatTypeColumn == {"none", "weekly", "monthly", "quarterly", "semestrial", "yearly"}

\* The outcomes of writing a row: the database takes it, or, for a
\* repeat_type outside the declared values, may refuse it.
Outcomes(row) == IF row.repeat_type \in RepeatTypeColumn THEN {TRUE} ELSE {TRUE, FALSE}

Reply(op, id, data, status, error) ==
    [op |-> op, id |-> id, data |-> data, status |-> status, error |-> error]

TagsOf(tags, id) == {r.tag : r \in {x \in tags : x.event_id = id}}

\* createMany({ data: tags.map(...), skipDuplicates: true }), skipped when
\* parseTags gave no tag.
createTags(tags, id, parsed) ==
    tags \cup {[event_id |-> id, tag |-> parsed[i]] : i \in 1..Len(parsed)}

\* SQL NULL in a text column and in an integer column.
NullText == <<"null">>
NullInt == 0 - 1

\* The two statuses POST / gives an event that comes without one.
Planifie == <<"Planifié">>
NonPlanifie == <<"Non planifié">>

\* alertMinutesMap[label] ?? null
alertMinutesMap(label) ==
    CASE label = "15 minutes avant" -> 15
      [] label = "30 minutes avant" -> 30
      [] label = "1 heure avant"    -> 60
      [] label = "2 heures avant"   -> 120
      [] label = "1 jour avant"     -> 1440
      [] label = "15"               -> 15
      [] label = "30"               -> 30
      [] label = "60"               -> 60
      [] label = "120"              -> 120
      [] label = "1440"             -> 1440
      [] OTHER                      -> NullInt

\* findOrCreateCategory(name) over the table `categories`: the id returned
\* (0 for null) and the table afterwards.
findOrCreateCategory(categories, name) ==
    IF trim(name) = <<>>
    THEN [id |-> 0, table |-> categories]
    ELSE IF \E i \in 1..Len(categories) : categories[i] = trim(name)
         THEN [id |-> CHOOSE i \in 1..Len(categories) : categories[i] = trim(name),
               table |-> categories]
         ELSE [id |-> Len(categories) + 1, table |-> Append(categories, trim(name))]

\* eventCreateSchema.safeParse(body).success
createSchemaAccepts(body) == "title" \in body.has /\ Len(body.title) >= 1

\* eventUpdateSchema.safeParse(body).success
updateSchemaAccepts(body) == "title" \in body.has => Len(body.title) >= 1

\* eventUpdateSchema.safeParse(body).data: the body, with allDay: true put
\* in when it is left out and the zod release applies defaults there.
updateSchemaData(body) ==
    IF defaultsInPartial /\ "allDay" \notin body.has
    THEN [body EXCEPT !.has = @ \cup {"allDay"}, !.allDay = TRUE]
    ELSE body

\* The row POST / creates from a body.
createdRow(id, data, categories) ==
    LET isUnplanned == "isUnplanned" \in data.has /\ data.isUnplanned
        repeatType  == IF "repeat" \in data.has /\ data.repeat # ""
                       THEN repeatTypeOf(data.repeat) ELSE "none"
        startDateTime == IF isUnplanned \/ "startDate" \notin data.has
                         THEN NullDate ELSE data.startDate
        endDateTime   == IF isUnplanned \/ "endDate" \notin data.has
                         THEN NullDate ELSE data.endDate
        repeatEndDateTime == IF "repeatEndDate" \in data.has
                             THEN data.repeatEndDate ELSE NullDate
    IN  [id |-> id,
         title |-> trim(data.title),
         description |-> IF "description" \in data.has /\ trim(data.description) # <<>>
                         THEN trim(data.description) ELSE NullText,
         all_day |-> IF "allDay" \in data.has THEN data.allDay ELSE TRUE,
         category_id |-> IF "category" \in data.has
                         THEN findOrCreateCategory(categories, data.category).id ELSE 0,
         alert_minutes |-> IF "alert" \in data.has /\ data.alert # ""
                           THEN alertMinutesMap(data.alert) ELSE NullInt,
         status |-> IF "status" \in data.has /\ trim(data.status) # <<>>
                    THEN trim(data.status)
                    ELSE IF isUnplanned THEN NonPlanifie ELSE Planifie]
        @@ Row(<<startDateTime, endDateTime>>, repeatType, repeatEndDateTime,
               generateRRule(repeatType, repeatEndDateTime))

\* POST /events with a valid token.
PostEvent(data) ==
    /\ Len(events) < MaxStored
    /\ IF ~createSchemaAccepts(data)
       THEN /\ write' = Reply("post", 0, data, 400, "Le titre est requis")
            /\ UNCHANGED <<events, event_tags, event_categories>>
       ELSE /\ event_categories' = IF "category" \in data.has
                                   THEN findOrCreateCategory(event_categories, data.category).table
                                   ELSE event_categories
            /\ \E accepted \in Outcomes(createdRow(Len(events) + 1, data, event_categories)) :
                  IF accepted
                  THEN /\ events' = Append(events, createdRow(Len(events) + 1, data,
                                                              event_categories))
                       /\ event_tags' = IF "tags" \in data.has /\ data.tags # <<>>
                                        THEN createTags(event_tags, Len(events) + 1,
                                                        parseTags(data.tags).tags)
                                        ELSE event_tags
                       /\ write' = Reply("post", Len(events) + 1, data, 201, "")
                  ELSE /\ write' = Reply("post", 0, data, 500, "PrismaClientValidationError")
                       /\ UNCHANGED <<events, event_tags>>
    /\ UNCHANGED <<now, nullsFirst, req, resp, codec, tagger, defaultsInPartial, puts, accounts>>

\* The attributes of updateData other than the dates and the recurrence,
\* applied to the existing row.
updatedAttributes(existing, data, categories) ==
    [existing EXCEPT
        !.title = IF "title" \in data.has THEN trim(data.title) ELSE @,
        !.description = IF "description" \in data.has
                        THEN (IF trim(data.description) # <<>>
                              THEN trim(data.description) ELSE NullText)
                        ELSE @,
        !.all_day = IF "allDay" \in data.has THEN data.allDay ELSE @,
        !.status = IF "status" \in data.has THEN trim(data.status) ELSE @,
        !.alert_minutes = IF "alert" \in data.has THEN alertMinutesMap(data.alert) ELSE @,
        !.category_id = IF "category" \in data.has
                        THEN findOrCreateCategory(categories, data.category).id ELSE @]

\* updatedRow with the rule regenerated only when the body carries repeat.
updatedRowRuleOnRepeat(existing, data, categories) ==
    LET start == IF "startDate" \in data.has THEN data.startDate ELSE existing.start
        end   == IF "endDate" \in data.has THEN data.endDate ELSE existing.end
        currentRepeatType == IF "repeat" \in data.has
                             THEN repeatTypeOf(data.repeat) ELSE existing.repeat_type
        currentRepeatEndDate == IF "repeatEndDate" \in data.has
                                THEN data.repeatEndDate ELSE existing.repeat_end_date
    IN  [updatedAttributes(existing, data, categories) EXCEPT
            !.start = start,
            !.end = end,
            !.repeat_type = currentRepeatType,
            !.repeat_end_date = currentRepeatEndDate,
            !.rrule = IF "repeat" \in data.has
                      THEN generateRRule(currentRepeatType, currentRepeatEndDate)
                      ELSE existing.rrule]

\* updatedRow with the rule regenerated only when the body carries repeatEndDate.
updatedRowRuleOnEndDate(existing, data, categories) ==
    LET start == IF "startDate" \in data.has THEN data.startDate ELSE existing.start
        end   == IF "endDate" \in data.has THEN data.endDate ELSE existing.end
        currentRepeatType == IF "repeat" \in data.has
                             THEN repeatTypeOf(data.repeat) ELSE existing.repeat_type
        currentRepeatEndDate == IF "repeatEndDate" \in data.has
                                THEN data.repeatEndDate ELSE existing.repeat_end_date
    IN  [updatedAttributes(existing, data, categories) EXCEPT
            !.start = start,
            !.end = end,
            !.repeat_type = currentRepeatType,
            !.repeat_end_date = currentRepeatEndDate,
            !.rrule = IF "repeatEndDate" \in data.has
                      THEN generateRRule(currentRepeatType, currentRepeatEndDate)
                      ELSE existing.rrule]

\* updateData applied to the existing row.
updatedRow(existing, data, categories) ==
    LET start == IF "startDate" \in data.has THEN data.startDate ELSE existing.start
        end   == IF "endDate" \in data.has THEN data.endDate ELSE existing.end
        currentRepeatType == IF "repeat" \in data.has
                             THEN repeatTypeOf(data.repeat) ELSE existing.repeat_type
        currentRepeatEndDate == IF "repeatEndDate" \in data.has
                                THEN data.repeatEndDate ELSE existing.repeat_end_date
    IN  [updatedAttributes(existing, data, categories) EXCEPT
            !.start = start,
            !.end = end,
            !.repeat_type = currentRepeatType,
            !.repeat_end_date = currentRepeatEndDate,
            !.rrule = IF "repeat" \in data.has \/ "repeatEndDate" \in data.has
                      THEN generateRRule(currentRepeatType, currentRepeatEndDate)
                      ELSE existing.rrule]

\* replaceTags without the deleteMany.
replaceTagsKeeping(tags, id, input) == createTags(tags, id, parseTags(input).tags)

\* deleteMany({ where: { event_id: id } }), then the tags parsed from the body.
replaceTags(tags, id, input) ==
    createTags({x \in tags : x.event_id # id}, id, parseTags(input).tags)

\* PUT /events/:id with a valid token.
PutEvent(id, body) ==
    /\ IF id \notin 1..Len(events)
       THEN /\ write' = Reply("put", id, body, 404, "")
            /\ UNCHANGED <<events, event_tags, event_categories>>
       ELSE IF ~updateSchemaAccepts(body)
       THEN /\ write' = Reply("put", id, body, 400, "Le titre est requis")
            /\ UNCHANGED <<events, event_tags, event_categories>>
       ELSE /\ event_categories' =
                  IF "category" \in body.has
                  THEN findOrCreateCategory(event_categories, body.category).table
                  ELSE event_categories
            /\ \E accepted \in Outcomes(updatedRow(events[id], updateSchemaData(body),
                                                    event_categories)) :
                  IF accepted
                  THEN /\ events' = [events EXCEPT
                                        ![id] = updatedRow(events[id], updateSchemaData(body),
                                                           event_categories)]
                       /\ event_tags' = IF "tags" \in body.has
                                        THEN replaceTags(event_tags, id, body.tags)
                                        ELSE event_tags
                       /\ write' = Reply("put", id, body, 200, "")
                  ELSE /\ write' = Reply("put", id, body, 500, "PrismaClientValidationError")
                       /\ UNCHANGED <<events, event_tags>>
    /\ UNCHANGED <<now, nullsFirst, req, resp, codec, tagger, defaultsInPartial, puts, accounts>>

----------------------------------------------------------------------------
(* The write path on its own: events are created and updated from an empty *)
(* table.                                                                  *)

Body(has, startDate, endDate, repeat, repeatEndDate, isUnplanned, tags) ==
    [NoData EXCEPT !.has = has, !.startDate = startDate, !.endDate = endDate,
                   !.repeat = repeat, !.repeatEndDate = repeatEndDate,
                   !.isUnplanned = isUnplanned, !.tags = tags]

\* The body `data` with a title added.
Titled(data, title) == [data EXCEPT !.has = @ \cup {"title"}, !.title = title]

\* A body with the one field f.
Only(f, v) == [NoData EXCEPT !.has = {f}, ![f] = v]

Payloads ==
    LET start == Timings.monday[1]
        end   == Timings.monday[2]
        until == Midnight(Day_2024_03_31)
    IN  {Body({"startDate", "endDate", "repeat", "repeatEndDate", "tags"},
              start, end, "Chaque semaine", until, FALSE, <<"1", ",", " ", "1", "1">>),
         Body({"isUnplanned", "startDate", "repeat"},
              start, NullDate, "Trimestriel", NullDate, TRUE, <<>>),
         Body({"startDate", "repeat"}, start, NullDate, "Quotidien", NullDate, FALSE, <<>>),
         NoData,
         Only("repeat", "Jamais"),
         Only("repeat", "Bimensuel"),
         Only("repeat", "Chaque semaine"),
         Only("repeatEndDate", NullDate),
         Only("repeatEndDate", until),
         Only("startDate", NullDate),
         Only("tags", <<>>),
         Only("tags", <<Quote>>),
         Only("tags", <<"#", "1">>)}

InitWrite ==
    /\ events = <<>>
    /\ now = Clock[1]
    /\ nullsFirst = TRUE
    /\ req = NoReq
    /\ resp = <<>>
    /\ codec = IdleCodec
    /\ event_tags = {}
    /\ write = NoWrite
    /\ tagger = IdleTagger
    /\ event_categories = <<>>
    /\ defaultsInPartial = FALSE
    /\ puts = NoPuts
    /\ users = <<>>
    /\ tokens = {}
    /\ account = NoAccount

NextWrite ==
    \/ \E data \in Payloads : PostEvent(Titled(data, <<"1">>))
    \/ \E id \in 1..MaxStored, data \in Payloads : PutEvent(id, data)

SpecWrite == InitWrite /\ [][NextWrite]_vars

----------------------------------------------------------------------------
(* The write path with the attributes of an event other than its dates and *)
(* recurrence: title, description, status, all_day, alert_minutes and      *)
(* category_id, under either zod release.                                  *)

EditCreates ==
    {NoData,
     Titled(NoData, <<>>),
     Titled(NoData, <<" ">>),
     Titled(NoData, <<"1">>),
     [Body({"startDate", "endDate", "repeat"},
           Timings.monday[1], Timings.monday[2], "Chaque semaine", NullDate, FALSE, <<>>)
        EXCEPT !.has = @ \cup {"title", "description", "status", "allDay", "alert", "category"},
               !.title = <<" ", "1">>, !.description = <<"1">>, !.status = <<"1", " ">>,
               !.allDay = FALSE, !.alert = "15 minutes avant", !.category = <<"1">>]}

EditUpdates ==
    {NoData,
     Only("title", <<>>), Only("title", <<" ">>), Only("title", <<"1">>),
     Only("description", <<>>), Only("description", <<"1">>),
     Only("status", <<>>), Only("status", <<"1">>),
     Only("allDay", FALSE),
     Only("alert", ""), Only("alert", "15"),
     Only("category", <<>>), Only("category", <<"1">>),
     Only("startDate", NullDate),
     Only("repeat", "")}

InitEdit ==
    /\ events = <<>>
    /\ now = Clock[1]
    /\ nullsFirst = TRUE
    /\ req = NoReq
    /\ resp = <<>>
    /\ codec = IdleCodec
    /\ event_tags = {}
    /\ write = NoWrite
    /\ tagger = IdleTagger
    /\ event_categories = <<>>
    /\ defaultsInPartial \in BOOLEAN
    /\ puts = NoPuts
    /\ users = <<>>
    /\ tokens = {}
    /\ account = NoAccount

NextEdit ==
    \/ \E data \in EditCreates : PostEvent(data)
    \/ \E id \in 1..MaxStored, data \in EditUpdates : PutEvent(id, data)

SpecEdit == InitEdit /\ [][NextEdit]_vars

----------------------------------------------------------------------------
(* PUT /events/:id served one database call at a time.  The handler runs   *)
(* without a transaction: between two awaited calls of one request the     *)
(* calls of another request may run.  A request being served is a record   *)
(* [pc, id, body, existing]; the calls to event_categories and to          *)
(* event_history are left out (the bodies sent here carry no category).    *)

MaxPuts == 2

\* The columns updateData holds for the parsed body `data`.
updateDataColumns(data) ==
    {c \in {"title", "description", "all_day", "status", "alert_minutes", "category_id",
            "start", "end", "repeat_type", "repeat_end_date", "rrule"} :
        \/ c = "title" /\ "title" \in data.has
        \/ c = "description" /\ "description" \in data.has
        \/ c = "all_day" /\ "allDay" \in data.has
        \/ c = "status" /\ "status" \in data.has
        \/ c = "alert_minutes" /\ "alert" \in data.has
        \/ c = "category_id" /\ "category" \in data.has
        \/ c = "start" /\ "startDate" \in data.has
        \/ c = "end" /\ "endDate" \in data.has
        \/ c = "repeat_type" /\ "repeat" \in data.has
        \/ c = "repeat_end_date" /\ "repeatEndDate" \in data.has
        \/ c = "rrule" /\ ("repeat" \in data.has \/ "repeatEndDate" \in data.has)}

\* prisma.events.update({ where: { id }, data: updateData }) on the row as
\* it is now, updateData computed from the row `existing` read earlier.
updateApplied(current, existing, data) ==
    [c \in DOMAIN current |->
        IF c \in updateDataColumns(data)
        THEN updatedRow(existing, data, event_categories)[c]
        ELSE current[c]]

PutArrives(id, body) ==
    /\ Len(puts) < MaxPuts
    /\ puts' = Append(puts, [pc |-> "received", id |-> id, body |-> body, existing |-> <<>>])
    /\ UNCHANGED <<events, event_tags, write, event_categories>>
    /\ UNCHANGED <<now, nullsFirst, req, resp, codec, tagger, defaultsInPartial, accounts>>

\* findUnique, then safeParse.
PutFinds(k) ==
    /\ puts[k].pc = "received"
    /\ IF puts[k].id \notin 1..Len(events)
       THEN /\ puts' = [puts EXCEPT ![k].pc = "done"]
            /\ write' = Reply("put", puts[k].id, puts[k].body, 404, "")
       ELSE IF ~updateSchemaAccepts(puts[k].body)
       THEN /\ puts' = [puts EXCEPT ![k].pc = "done"]
            /\ write' = Reply("put", puts[k].id, puts[k].body, 400, "Le titre est requis")
       ELSE /\ puts' = [puts EXCEPT ![k].pc = "found", ![k].existing = <<events[puts[k].id]>>]
            /\ UNCHANGED write
    /\ UNCHANGED <<events, event_tags, event_categories>>
    /\ UNCHANGED <<now, nullsFirst, req, resp, codec, tagger, defaultsInPartial, accounts>>

\* prisma.events.update.
PutUpdates(k) ==
    /\ puts[k].pc = "found"
    /\ \E accepted \in Outcomes(updateApplied(events[puts[k].id], puts[k].existing[1],
                                              updateSchemaData(puts[k].body))) :
          IF accepted
          THEN /\ events' = [events EXCEPT ![puts[k].id] =
                                updateApplied(events[puts[k].id], puts[k].existing[1],
                                              updateSchemaData(puts[k].body))]
               /\ IF "tags" \in puts[k].body.has
                  THEN /\ puts' = [puts EXCEPT ![k].pc = "updated"]
                       /\ UNCHANGED write
                  ELSE /\ puts' = [puts EXCEPT ![k].pc = "done"]
                       /\ write' = Reply("put", puts[k].id, puts[k].body, 200, "")
          ELSE /\ puts' = [puts EXCEPT ![k].pc = "done"]
               /\ write' = Reply("put", puts[k].id, puts[k].body, 500,
                                 "PrismaClientValidationError")
               /\ UNCHANGED events
    /\ UNCHANGED <<event_tags, event_categories>>
    /\ UNCHANGED <<now, nullsFirst, req, resp, codec, tagger, defaultsInPartial, accounts>>

\* prisma.event_tags.deleteMany({ where: { event_id: id } }).
PutDeletesTags(k) ==
    /\ puts[k].pc = "updated"
    /\ event_tags' = {x \in event_tags : x.event_id # puts[k].id}
    /\ puts' = [puts EXCEPT ![k].pc = "deleted"]
    /\ UNCHANGED <<events, write, event_categories>>
    /\ UNCHANGED <<now, nullsFirst, req, resp, codec, tagger, defaultsInPartial, accounts>>

\* parseTags, prisma.event_tags.createMany when it gave a tag, and the reply.
PutCreatesTags(k) ==
    /\ puts[k].pc = "deleted"
    /\ event_tags' = createTags(event_tags, puts[k].id, parseTags(puts[k].body.tags).tags)
    /\ puts' = [puts EXCEPT ![k].pc = "done"]
    /\ write' = Reply("put", puts[k].id, puts[k].body, 200, "")
    /\ UNCHANGED <<events, event_categories>>
    /\ UNCHANGED <<now, nullsFirst, req, resp, codec, tagger, defaultsInPartial, accounts>>

RaceUpdates ==
    {Only("tags", <<"1">>),
     Only("tags", <<"1", "1">>),
     Only("repeat", "Chaque semaine")}

\* One event, created by POST /events with a title and a tag.
InitRace ==
    /\ events = <<createdRow(1, Titled(Only("tags", <<"1", " ", "1">>), <<"1">>), <<>>)>>
    /\ now = Clock[1]
    /\ nullsFirst = TRUE
    /\ req = NoReq
    /\ resp = <<>>
    /\ codec = IdleCodec
    /\ event_tags = createTags({}, 1, parseTags(<<"1", " ", "1">>).tags)
    /\ write = NoWrite
    /\ tagger = IdleTagger
    /\ event_categories = <<>>
    /\ defaultsInPartial = FALSE
    /\ puts = NoPuts
    /\ users = <<>>
    /\ tokens = {}
    /\ account = NoAccount

NextRace ==
    \/ \E id \in 1..(MaxStored + 1), body \in RaceUpdates : PutArrives(id, body)
    \/ \E k \in 1..Len(puts) : PutFinds(k)
    \/ \E k \in 1..Len(puts) : PutUpdates(k)
    \/ \E k \in 1..Len(puts) : PutDeletesTags(k)
    \/ \E k \in 1..Len(puts) : PutCreatesTags(k)

SpecRace == InitRace /\ [][NextRace]_vars

----------------------------------------------------------------------------
(* The users and auth routes: POST /users, PUT /users/:id,                 *)
(* DELETE /users/:id, POST /auth/login and POST /auth/change-password.     *)
(*                                                                         *)
(* A deleted user leaves a blank row marked deleted in its place in        *)
(* `users`, so that ids are never given twice.  Names, emails and          *)
(* passwords are sequences of characters.  A token is valid for the seven  *)
(* days it is signed for; `tokens` never shrinks.                          *)

MaxUsers == 2

\* bcryptjs hash and compare: the hash matches the password it was made of.
hash(password) == <<"$2a$10$">> \o password
compare(password, password_hash) == password_hash = hash(password)

\* The passwords generatePassword() may return.
GeneratedPasswords == {<<"a", "Z", "3", "!", "b", "Y", "4", "@", "c", "X", "5", "#">>}

\* z.string().email(): no blank, one "@" with text on both sides.
isEmail(s) ==
    /\ ~includes(s, " ")
    /\ Len(Indices(s, "@")) = 1
    /\ Indices(s, "@")[1] > 1 /\ Indices(s, "@")[1] < Len(s)

NoUserBody == [has |-> {}, name |-> <<>>, email |-> <<>>, role |-> "user",
               isActive |-> TRUE, password |-> <<>>]

userCreateSchemaAccepts(body) ==
    /\ "name" \in body.has /\ Len(body.name) >= 1
    /\ "email" \in body.has => (isEmail(body.email) \/ body.email = <<>>)
    /\ "password" \in body.has => Len(body.password) >= 6

userUpdateSchemaAccepts(body) ==
    /\ "name" \in body.has => Len(body.name) >= 1
    /\ "email" \in body.has => (isEmail(body.email) \/ body.email = <<>>)
    /\ "password" \in body.has => Len(body.password) >= 6

\* The ids of the rows of `table` that are there and satisfy Where, but `not`.
Live(table) == {i \in 1..Len(table) : ~table[i].deleted}
WithName(table, name, not) == {i \in Live(table) \ {not} : table[i].name = name}
WithEmail(table, email, not) == {i \in Live(table) \ {not} : table[i].email = email}

\* The reply to a request to /users or /auth: the operation, the user it
\* concerned (0: none), the status, what became of the email ("none": no
\* email was to be sent), whether a token was issued and the password given.
Answer(op, id, status, mail, token, secret) ==
    [op |-> op, id |-> id, status |-> status, mail |-> mail, token |-> token,
     secret |-> secret]

\* The users table a handler leaves that writes `written` unless the email
\* it had to send failed.
afterMailIgnoringFailure(table, written, mailNeeded, emailSent) == written

afterMail(table, written, mailNeeded, emailSent) ==
    IF mailNeeded /\ ~emailSent THEN table ELSE written

mailOf(mailNeeded, emailSent) ==
    IF ~mailNeeded THEN "none" ELSE IF emailSent THEN "sent" ELSE "failed"

\* The row prisma.users.create writes; is_active and is_root_admin take the
\* defaults of their columns.
createdUser(body, passwordHash) ==
    [name |-> trim(body.name),
     email |-> IF "email" \in body.has /\ trim(body.email) # <<>>
               THEN trim(body.email) ELSE NullText,
     role |-> IF "role" \in body.has THEN body.role ELSE "user",
     is_active |-> TRUE,
     is_root_admin |-> FALSE,
     password_hash |-> passwordHash,
     must_change_password |-> TRUE,
     last_login |-> NullDate,
     deleted |-> FALSE]

PostUser(body) ==
    /\ Len(users) < MaxUsers
    /\ IF ~userCreateSchemaAccepts(body)
       THEN /\ account' = Answer("post", 0, 400, "none", FALSE, <<>>)
            /\ UNCHANGED users
       ELSE IF WithName(users, trim(body.name), 0) # {}
       THEN /\ account' = Answer("post", 0, 409, "none", FALSE, <<>>)
            /\ UNCHANGED users
       ELSE IF /\ "email" \in body.has /\ body.email # <<>>
               /\ WithEmail(users, trim(body.email), 0) # {}
       THEN /\ account' = Answer("post", 0, 409, "none", FALSE, <<>>)
            /\ UNCHANGED users
       ELSE \E generated \in GeneratedPasswords, emailSent \in BOOLEAN :
               /\ users' = afterMail(users,
                                     Append(users,
                                            createdUser(body,
                                                        hash(IF "password" \in body.has
                                                             THEN body.password
                                                             ELSE generated))),
                                     "email" \in body.has /\ trim(body.email) # <<>>,
                                     emailSent)
               /\ account' = Answer("post",
                                    IF users' # users THEN Len(users) + 1 ELSE 0,
                                    IF users' # users THEN 201 ELSE 500,
                                    mailOf("email" \in body.has /\ trim(body.email) # <<>>,
                                           emailSent),
                                    FALSE, <<>>)
    /\ UNCHANGED tokens
    /\ UNCHANGED <<events, now, nullsFirst, req, resp, codec, event_tags, write, tagger,
                   event_categories, defaultsInPartial, puts>>

\* emailChanged of PUT /users/:id.
emailChanged(existing, body) ==
    /\ "email" \in body.has
    /\ trim(body.email) # <<>>
    /\ trim(body.email) # existing.email

\* The row prisma.users.update leaves.
updatedUser(existing, body, generated) ==
    [existing EXCEPT
        !.name = IF "name" \in body.has THEN trim(body.name) ELSE @,
        !.email = IF "email" \in body.has
                  THEN (IF trim(body.email) # <<>> THEN trim(body.email) ELSE NullText)
                  ELSE @,
        !.role = IF "role" \in body.has THEN body.role ELSE @,
        !.is_active = IF "isActive" \in body.has THEN body.isActive ELSE @,
        !.password_hash = IF emailChanged(existing, body) THEN hash(generated)
                          ELSE IF "password" \in body.has THEN hash(body.password)
                          ELSE @,
        !.must_change_password = IF emailChanged(existing, body) \/ "password" \in body.has
                                 THEN TRUE ELSE @]

PutUser(id, body) ==
    /\ IF ~userUpdateSchemaAccepts(body)
       THEN /\ account' = Answer("put", id, 400, "none", FALSE, <<>>)
            /\ UNCHANGED users
       ELSE IF id \notin Live(users)
       THEN /\ account' = Answer("put", id, 404, "none", FALSE, <<>>)
            /\ UNCHANGED users
       ELSE IF "name" \in body.has /\ WithName(users, trim(body.name), id) # {}
       THEN /\ account' = Answer("put", id, 409, "none", FALSE, <<>>)
            /\ UNCHANGED users
       ELSE IF /\ "email" \in body.has /\ body.email # <<>>
               /\ WithEmail(users, trim(body.email), id) # {}
       THEN /\ account' = Answer("put", id, 409, "none", FALSE, <<>>)
            /\ UNCHANGED users
       ELSE \E generated \in GeneratedPasswords, emailSent \in BOOLEAN :
               /\ users' = afterMail(users,
                                     [users EXCEPT ![id] = updatedUser(users[id], body,
                                                                       generated)],
                                     emailChanged(users[id], body), emailSent)
               /\ account' = Answer("put", id,
                                    IF emailChanged(users[id], body) /\ ~emailSent
                                    THEN 500 ELSE 200,
                                    mailOf(emailChanged(users[id], body), emailSent),
                                    FALSE, <<>>)
    /\ UNCHANGED tokens
    /\ UNCHANGED <<events, now, nullsFirst, req, resp, codec, event_tags, write, tagger,
                   event_categories, defaultsInPartial, puts>>

\* What is left in the place of a deleted row.
DeletedUser ==
    [name |-> <<>>, email |-> NullText, role |-> "user", is_active |-> FALSE,
     is_root_admin |-> FALSE, password_hash |-> NullText,
     must_change_password |-> FALSE, last_login |-> NullDate, deleted |-> TRUE]

\* The status of DELETE /users/:id whatever the user is.
deleteStatusAnyUser(table, id) ==
    IF id \notin Live(table) THEN 404 ELSE 200

\* The status of DELETE /users/:id.
deleteStatus(table, id) ==
    IF id \notin Live(table) THEN 404
    ELSE IF table[id].is_root_admin THEN 403
    ELSE 200

DeleteUser(id) ==
    /\ users' = IF deleteStatus(users, id) = 200
                THEN [users EXCEPT ![id] = DeletedUser]
                ELSE users
    /\ account' = Answer("delete", id, deleteStatus(users, id), "none", FALSE, <<>>)
    /\ UNCHANGED tokens
    /\ UNCHANGED <<events, now, nullsFirst, req, resp, codec, event_tags, write, tagger,
                   event_categories, defaultsInPartial, puts>>

\* The status of POST /auth/login for the user found, without the test on
\* must_change_password.
loginStatusNoForcedChange(user, password) ==
    IF ~user.is_active THEN 403
    ELSE IF user.password_hash = NullText THEN 400
    ELSE IF ~compare(password, user.password_hash) THEN 401
    ELSE 200

\* The status of POST /auth/login for the user found; 202 stands for the
\* reply { passwordChangeRequired: true }, which is sent with status 200
\* and without a token.
loginStatus(user, password) ==
    IF ~user.is_active THEN 403
    ELSE IF user.password_hash = NullText THEN 400
    ELSE IF ~compare(password, user.password_hash) THEN 401
    ELSE IF user.must_change_password /\ ~user.is_root_admin THEN 202
    ELSE 200

\* findFirst({ where: { name } }): the first row in id order.
firstWithName(table, name) ==
    CHOOSE i \in WithName(table, name, 0) : \A j \in WithName(table, name, 0) : i <= j

Login(identifier, password) ==
    /\ IF Len(identifier) < 1 \/ Len(password) < 1
       THEN /\ account' = Answer("login", 0, 400, "none", FALSE, password)
            /\ UNCHANGED <<users, tokens>>
       ELSE IF WithName(users, trim(identifier), 0) = {}
       THEN /\ account' = Answer("login", 0, 404, "none", FALSE, password)
            /\ UNCHANGED <<users, tokens>>
       ELSE IF loginStatus(users[firstWithName(users, trim(identifier))], password) # 200
       THEN /\ account' = Answer("login", firstWithName(users, trim(identifier)),
                                 loginStatus(users[firstWithName(users, trim(identifier))],
                                             password),
                                 "none", FALSE, password)
            /\ UNCHANGED <<users, tokens>>
       ELSE /\ users' = [users EXCEPT ![firstWithName(users, trim(identifier))].last_login = now]
            /\ tokens' = tokens \cup {firstWithName(users, trim(identifier))}
            /\ account' = Answer("login", firstWithName(users, trim(identifier)), 200,
                                 "none", TRUE, password)
    /\ UNCHANGED <<events, now, nullsFirst, req, resp, codec, event_tags, write, tagger,
                   event_categories, defaultsInPartial, puts>>

\* POST /auth/change-password with the token issued to `caller`, 0 for a
\* request without a valid token.
ChangePassword(caller, currentPassword, newPassword) ==
    /\ IF caller \notin tokens
       THEN /\ account' = Answer("change-password", 0, 401, "none", FALSE, <<>>)
            /\ UNCHANGED users
       ELSE IF Len(currentPassword) < 1 \/ Len(newPassword) < 6
       THEN /\ account' = Answer("change-password", caller, 400, "none", FALSE, <<>>)
            /\ UNCHANGED users
       ELSE IF caller \notin Live(users)
       THEN /\ account' = Answer("change-password", caller, 404, "none", FALSE, <<>>)
            /\ UNCHANGED users
       ELSE IF users[caller].password_hash = NullText
       THEN /\ account' = Answer("change-password", caller, 400, "none", FALSE, <<>>)
            /\ UNCHANGED users
       ELSE IF ~compare(currentPassword, users[caller].password_hash)
       THEN /\ account' = Answer("change-password", caller, 401, "none", FALSE, <<>>)
            /\ UNCHANGED users
       ELSE /\ users' = [users EXCEPT ![caller].password_hash = hash(newPassword),
                                      ![caller].must_change_password = FALSE]
            /\ account' = Answer("change-password", caller, 200, "none", FALSE, <<>>)
    /\ UNCHANGED tokens
    /\ UNCHANGED <<events, now, nullsFirst, req, resp, codec, event_tags, write, tagger,
                   event_categories, defaultsInPartial, puts>>

----------------------------------------------------------------------------
(* The users and auth routes on their own, from a table that holds the     *)
(* root administrator, with a password configured or not yet.              *)

Secret1 == <<"s", "e", "c", "r", "e", "t">>
Secret2 == <<"S", "E", "C", "R", "E", "T">>
TooShort == <<"s">>

RootName == <<"r">>
BobName == <<"b">>
BobEmail == <<"b", "@", "x">>
OtherEmail == <<"c", "@", "x">>

RootAdmin ==
    [name |-> RootName, email |-> NullText, role |-> "admin", is_active |-> TRUE,
     is_root_admin |-> TRUE, password_hash |-> hash(Secret1),
     must_change_password |-> FALSE, last_login |-> NullDate, deleted |-> FALSE]

UserCreates ==
    {[NoUserBody EXCEPT !.has = {"name"}, !.name = <<"b", " ">>],
     [NoUserBody EXCEPT !.has = {"name", "email", "password"}, !.name = BobName,
                        !.email = BobEmail, !.password = Secret1],
     [NoUserBody EXCEPT !.has = {"name", "email"}, !.name = RootName, !.email = <<>>],
     [NoUserBody EXCEPT !.has = {"name", "email"}, !.name = BobName, !.email = <<" ">>],
     NoUserBody}

UserUpdates ==
    {[NoUserBody EXCEPT !.has = {"name", "email", "role", "isActive", "password"},
                        !.name = <<"b", " ">>, !.email = OtherEmail, !.role = "admin",
                        !.isActive = FALSE, !.password = Secret1],
     [NoUserBody EXCEPT !.has = {"isActive"}, !.isActive = FALSE],
     [NoUserBody EXCEPT !.has = {"password"}, !.password = TooShort],
     [NoUserBody EXCEPT !.has = {"email"}, !.email = <<>>]}

Identifiers == {RootName, BobName, <<>>}
Passwords == {Secret1} \cup GeneratedPasswords

InitUsers ==
    /\ events = <<>>
    /\ now = Clock[1]
    /\ nullsFirst = TRUE
    /\ req = NoReq
    /\ resp = <<>>
    /\ codec = IdleCodec
    /\ event_tags = {}
    /\ write = NoWrite
    /\ tagger = IdleTagger
    /\ event_categories = <<>>
    /\ defaultsInPartial = FALSE
    /\ puts = NoPuts
    /\ users \in {<<RootAdmin>>, <<[RootAdmin EXCEPT !.password_hash = NullText]>>}
    /\ tokens = {}
    /\ account = NoAccount

NextUsers ==
    \/ \E body \in UserCreates : PostUser(body)
    \/ \E id \in 1..(MaxUsers + 1), body \in UserUpdates : PutUser(id, body)
    \/ \E id \in 1..(MaxUsers + 1) : DeleteUser(id)
    \/ \E identifier \in Identifiers, password \in Passwords : Login(identifier, password)
    \/ \E caller \in 0..MaxUsers, currentPassword \in Passwords,
          newPassword \in {Secret2, TooShort} :
          ChangePassword(caller, currentPassword, newPassword)

SpecUsers == InitUsers /\ [][NextUsers]_vars

----------------------------------------------------------------------------
(* Properties of GET /calendar.  They speak of the last reply, resp, and   *)
(* of the window it was computed for.                                      *)

\* The window of the last request.
windowStart == queryStartOf(req.start, req.at)
windowEnd == queryEndOf(req.end, req.at)

\* The occurrences of the last reply that belong to event id, in order.
OccIn(reply, id) == LET mine(o) == o.id = id IN SelectSeq(reply, mine)
OccOf(id) == OccIn(resp, id)

Starts(occ) == [i \in 1..Len(occ) |-> occ[i].start]

\* t without its milliseconds.
TruncSec(t) == [d |-> t.d, ms |-> t.ms - (t.ms % 1000)]

\* The months between two instants of a repeat type's series (0: weekly).
MonthsOf(repeat_type) ==
    CASE repeat_type = "monthly" -> 1
      [] repeat_type = "quarterly" -> 3
      [] repeat_type = "semestrial" -> 6
      [] repeat_type = "yearly" -> 12
      [] OTHER -> 0

MonthIndex(day) == CivilFromDays(day).y * 12 + CivilFromDays(day).m

\* t is an instant of event e's series: the anchor plus k periods, k >= 0,
\* not past the repeat end date cut to whole seconds.
InSeries(e, t) ==
    /\ t.ms = e.start.ms
    /\ t.d >= e.start.d
    /\ IF e.repeat_type = "weekly"
       THEN (t.d - e.start.d) % 7 = 0
       ELSE /\ MonthsOf(e.repeat_type) > 0
            /\ CivilFromDays(t.d).d = CivilFromDays(e.start.d).d
            /\ (MonthIndex(t.d) - MonthIndex(e.start.d)) % MonthsOf(e.repeat_type) = 0
    /\ e.repeat_end_date = NullDate \/ Leq(t, TruncSec(e.repeat_end_date))

\* The instants of e's series that lie in [lo, hi], endpoints included.
SeriesIn(e, lo, hi) ==
    {t \in {[d |-> day, ms |-> e.start.ms] : day \in lo.d..hi.d} :
        InSeries(e, t) /\ Leq(lo, t) /\ Leq(t, hi)}

\* e is a recurring event as the write path stores it, with an anchor.
Recurring(e) ==
    /\ e.start # NullDate
    /\ e.rrule # NullRule
    /\ e.rrule = generateRRule(e.repeat_type, e.repeat_end_date)

\* Null starts all at one end, the other starts ascending.
SortedByStart(occ) ==
    /\ \A i, j \in 1..Len(occ) :
          (i < j /\ occ[i].start # NullDate /\ occ[j].start # NullDate)
              => Leq(occ[i].start, occ[j].start)
    /\ \/ \A i, j \in 1..Len(occ) : (i < j /\ occ[j].start = NullDate) => occ[i].start = NullDate
       \/ \A i, j \in 1..Len(occ) : (i < j /\ occ[i].start = NullDate) => occ[j].start = NullDate

\* C1: the occurrences of a reply are sorted by start ascending across all of
\* them, generated instances included, the start-less ones at one end.
C1_ReplySortedByStart == req.sent => SortedByStart(resp)

\* C2: for an event with a start and a well-formed rule the reply holds
\* exactly the instants of its series that lie in the window, endpoints
\* included, each once and in ascending order.
C2_ExpansionIsSeriesInWindow ==
    req.sent =>
        \A e \in Rows :
            Recurring(e) =>
                /\ \A i, j \in 1..Len(OccOf(e.id)) :
                      i < j => Lt(OccOf(e.id)[i].start, OccOf(e.id)[j].start)
                /\ {OccOf(e.id)[i].start : i \in 1..Len(OccOf(e.id))}
                      = SeriesIn(e, windowStart, windowEnd)

\* A weekly event anchored at 2024-01-01, no end bound, queried over
\* [2024-01-01, 2024-01-22]: the four instances 01-01, 01-08, 01-15, 01-22.
C2_Witness ==
    /\ req.sent
    /\ req.start = Midnight(Day_2024_01_01)
    /\ req.end = Midnight(Day_2024_01_22)
    /\ \E e \in Rows :
          /\ Recurring(e)
          /\ e.start = Midnight(Day_2024_01_01)
          /\ e.repeat_type = "weekly"
          /\ e.repeat_end_date = NullDate
          /\ Starts(OccOf(e.id)) = <<Midnight(Day_2024_01_01), Midnight(Day_2024_01_01 + 7),
                                     Midnight(Day_2024_01_15), Midnight(Day_2024_01_22)>>

\* The stored rule of e does not decode.
Undecodable(e) == e.rrule # NullRule /\ newRRule(parseString(e.rrule), e.start).threw

\* e contributes to the last reply what it contributes to a reply over the
\* table without c.
SameWithout(c, e) ==
    \E r \in repliesOf(Rows \ {c}, req.start, req.end, req.at) : OccIn(r, e.id) = OccOf(e.id)

Nominal(e) ==
    /\ Len(OccOf(e.id)) = 1
    /\ OccOf(e.id)[1].start = e.start
    /\ OccOf(e.id)[1].end = e.end

\* C3 as stated: an event whose rule does not decode contributes exactly one
\* occurrence with its original start and end, and every other event
\* contributes what it would without that event.
C3_CorruptRuleOneOccurrence ==
    req.sent =>
        \A c \in Rows :
            Undecodable(c) =>
                /\ Nominal(c)
                /\ \A e \in Rows \ {c} : SameWithout(c, e)

\* The recurring pre-filter of a request with both bounds; every row passes
\* a request without them.
PassesPreFilter(c) ==
    \/ req.start = NullDate
    \/ req.end = NullDate
    \/ c.start = NullDate
    \/ /\ Leq(c.start, windowEnd)
       /\ c.repeat_end_date = NullDate \/ Leq(windowStart, c.repeat_end_date)

\* C3 amended: an event whose rule does not decode contributes exactly one
\* occurrence with its original start and end when it passes the pre-filter
\* and none when it does not; every other event contributes what it would
\* without that event.
C3_CorruptRuleDegradesAlone ==
    req.sent =>
        \A c \in Rows :
            Undecodable(c) =>
                /\ IF PassesPreFilter(c) THEN Nominal(c) ELSE OccOf(c.id) = <<>>
                /\ \A e \in Rows \ {c} : SameWithout(c, e)

C3_Witness ==
    /\ req.sent
    /\ \E c, e \in Rows :
          /\ Undecodable(c) /\ c.start # NullDate /\ Nominal(c)
          /\ Recurring(e) /\ Len(OccOf(e.id)) >= 2

\* C4: no occurrence of an event whose rule carries UNTIL starts after that
\* bound, and the instant of the series that falls exactly on the bound is
\* generated when the window holds it.
C4_NothingPastUntil ==
    req.sent =>
        \A e \in Rows :
            (Recurring(e) /\ parseString(e.rrule).until # NullDate) =>
                /\ \A i \in 1..Len(OccOf(e.id)) :
                      Leq(OccOf(e.id)[i].start, parseString(e.rrule).until)
                /\ (/\ InSeries(e, parseString(e.rrule).until)
                    /\ Leq(windowStart, parseString(e.rrule).until)
                    /\ Leq(parseString(e.rrule).until, windowEnd))
                      => \E i \in 1..Len(OccOf(e.id)) :
                            OccOf(e.id)[i].start = parseString(e.rrule).until

\* The window reaches past the bound and the last occurrence is on the bound.
C4_Witness ==
    /\ req.sent
    /\ \E e \in Rows :
          /\ Recurring(e)
          /\ parseString(e.rrule).until # NullDate
          /\ Lt(parseString(e.rrule).until, windowEnd)
          /\ Len(OccOf(e.id)) >= 2
          /\ OccOf(e.id)[Len(OccOf(e.id))].start = parseString(e.rrule).until

\* C5: every generated occurrence ends its event's duration after it starts:
\* end - start of the event, zero when the event has no end.
C5_OccurrenceKeepsDuration ==
    req.sent =>
        \A e \in Rows :
            Recurring(e) =>
                \A i \in 1..Len(OccOf(e.id)) :
                    Sub(OccOf(e.id)[i].end, OccOf(e.id)[i].start)
                        = IF e.end # NullDate THEN Sub(e.end, e.start) ELSE Zero

\* A later instance of an event that lasts, and an instance of one without end.
C5_Witness ==
    /\ req.sent
    /\ \E e, f \in Rows :
          /\ Recurring(e) /\ e.end # NullDate /\ e.end # e.start
          /\ \E i \in 1..Len(OccOf(e.id)) : OccOf(e.id)[i].start # e.start
          /\ Recurring(f) /\ f.end = NullDate
          /\ \E i \in 1..Len(OccOf(f.id)) : OccOf(f.id)[i].end = OccOf(f.id)[i].start

\* C6: an event without start is in every reply, exactly once, whatever the
\* window and whether or not it carries a rule.
C6_UnscheduledAlwaysOnce ==
    req.sent => \A e \in Rows : e.start = NullDate => Len(OccOf(e.id)) = 1

C6_Witness ==
    /\ req.sent /\ req.start # NullDate /\ req.end # NullDate
    /\ \E e \in Rows : e.start = NullDate /\ e.rrule # NullRule /\ Len(OccOf(e.id)) = 1

\* The overlap rule for an event without rule.
Overlaps(e, lo, hi) ==
    \/ e.start # NullDate /\ Leq(lo, e.start) /\ Leq(e.start, hi)
    \/ e.end # NullDate /\ Leq(lo, e.end) /\ Leq(e.end, hi)
    \/ e.start # NullDate /\ e.end # NullDate /\ Leq(e.start, lo) /\ Leq(hi, e.end)
    \/ e.start = NullDate

\* C7: with an explicit window an event without rule is in the reply iff it
\* overlaps the window or has no start, and then exactly once.
C7_NonRecurringIffOverlap ==
    (req.sent /\ req.start # NullDate /\ req.end # NullDate) =>
        \A e \in Rows :
            e.rrule = NullRule =>
                Len(OccOf(e.id)) = IF Overlaps(e, windowStart, windowEnd) THEN 1 ELSE 0

\* start = end = 2024-03-10 in [2024-03-01, 2024-03-31]: one occurrence.
C7_Witness ==
    /\ req.sent
    /\ req.start = Midnight(Day_2024_03_01)
    /\ req.end = Midnight(Day_2024_03_31)
    /\ \E e \in Rows :
          /\ e.rrule = NullRule
          /\ e.start = Midnight(Day_2024_03_10) /\ e.end = e.start
          /\ Starts(OccOf(e.id)) = <<Midnight(Day_2024_03_10)>>

\* C8: a request that lacks a bound is answered as the same request with the
\* default window [now, now + 1 year] given explicitly.
C8_DefaultWindowFilters ==
    (req.sent /\ (req.start = NullDate \/ req.end = NullDate)) =>
        resp \in repliesOf(Rows, windowStart, windowEnd, req.at)

\* C9: a query never changes the events table, and a query over the same
\* window as the one before it gives the same reply.
C9_ReadOnlyIdempotent ==
    [][/\ events' = events
       /\ (/\ req.sent /\ req'.sent
           /\ req'.start = req.start /\ req'.end = req.end
           /\ queryStartOf(req'.start, req'.at) = windowStart
           /\ queryEndOf(req'.end, req'.at) = windowEnd)
             => resp' = resp]_vars

\* The repeat types the generator maps, and the pair each stands for.
Mapped == {"weekly", "monthly", "quarterly", "semestrial", "yearly"}

PairOf(repeatType) ==
    CASE repeatType = "weekly"     -> <<"WEEKLY", 1>>
      [] repeatType = "monthly"    -> <<"MONTHLY", 1>>
      [] repeatType = "quarterly"  -> <<"MONTHLY", 3>>
      [] repeatType = "semestrial" -> <<"MONTHLY", 6>>
      [] repeatType = "yearly"     -> <<"YEARLY", 1>>

IsFreqPart(p) == p.k = "FREQ" /\ p.s \in {"WEEKLY", "MONTHLY", "YEARLY"} /\ p.n = <<>>

IsIntervalPart(p) == p.k = "INTERVAL" /\ p.s = "" /\ Len(p.n) = 1 /\ p.n[1] >= 1

\* A UTC basic timestamp YYYYMMDDThhmmssZ.
IsUntilPart(p) ==
    /\ p.k = "UNTIL" /\ p.s = "Z" /\ Len(p.n) = 6
    /\ p.n[1] \in 1000..9999 /\ p.n[2] \in 1..12 /\ p.n[3] \in 1..DaysInMonth(p.n[1], p.n[2])
    /\ p.n[4] \in 0..23 /\ p.n[5] \in 0..59 /\ p.n[6] \in 0..59

\* FREQ=<WEEKLY|MONTHLY|YEARLY>[;INTERVAL=n][;UNTIL=ts]
MatchesGrammar(rrule) ==
    /\ Len(rrule) \in 1..3
    /\ IsFreqPart(rrule[1])
    /\ Len(rrule) = 2 => IsIntervalPart(rrule[2]) \/ IsUntilPart(rrule[2])
    /\ Len(rrule) = 3 => IsIntervalPart(rrule[2]) /\ IsUntilPart(rrule[3])

----------------------------------------------------------------------------
(* Properties of the rule generator on unmapped repeat types.              *)

----------------------------------------------------------------------------
(* Properties of the write path.  They speak of the tables and of the last *)
(* POST /events or PUT /events/:id, write.                                 *)

\* The last write handed generateRRule a repeat type.
ReachedGenerator ==
    \/ write.op = "post"
    \/ /\ write.op = "put" /\ write.status # 404
       /\ "repeat" \in write.data.has \/ "repeatEndDate" \in write.data.has

\* The repeat type the last write took from its body ("none" without one).
RequestedRepeatType ==
    IF "repeat" \in write.data.has /\ (write.op = "put" \/ write.data.repeat # "")
    THEN repeatTypeOf(write.data.repeat)
    ELSE "none"

\* C12: a write whose repeat label maps to a repeat type without frequency
\* mapping (daily) fails with UnrecognizedCategoryError when that type reaches
\* the rule generator.
C12_UnmappedCategoryFails ==
    (ReachedGenerator /\ RequestedRepeatType \notin Mapped \cup {"none"})
        => write.error = "UnrecognizedCategoryError"

\* C13: every stored event that has a rule has a start.
C13_RuleHasAnchor ==
    \A i \in 1..Len(events) : events[i].rrule # NullRule => events[i].start # NullDate

\* C14: the stored rule of every event is generateRRule of its stored repeat
\* type and repeat end date.
C14_RuleIsDerived ==
    \A i \in 1..Len(events) :
        events[i].rrule = generateRRule(events[i].repeat_type, events[i].repeat_end_date)

\* An update that carries only an empty repeatEndDate has left a weekly event
\* with the rule without UNTIL.
C14_Witness ==
    /\ write.op = "put" /\ write.status = 200
    /\ write.data = Only("repeatEndDate", NullDate)
    /\ events[write.id].repeat_type = "weekly"
    /\ events[write.id].rrule = <<Part("FREQ", "WEEKLY", <<>>)>>

\* C15: every stored event whose repeat type is none has no rule.
C15_NoneHasNoRule ==
    \A i \in 1..Len(events) : events[i].repeat_type = "none" => events[i].rrule = NullRule

\* An update to an unknown label has left an event that keeps a repeat end
\* date with repeat type none and no rule.
C15_Witness ==
    /\ write.op = "put" /\ write.status = 200
    /\ write.data = Only("repeat", "Bimensuel")
    /\ events[write.id].repeat_type = "none"
    /\ events[write.id].repeat_end_date # NullDate
    /\ events[write.id].rrule = NullRule

\* C16: every occurrence of a reply carries a recurrence_id equal to its own
\* start, the occurrence of a non-recurring event included.
C16_InstanceKeyIsStart ==
    req.sent => \A i \in 1..Len(resp) : resp[i].recurrence_id = resp[i].start

\* C20: an update that carries tags leaves the event with exactly the tags
\* parsed from that field, and an update without tags leaves its tags as
\* they were.
C20_TagsReplacedWholesale ==
    [][(write'.op = "put" /\ write'.status = 200) =>
          TagsOf(event_tags', write'.id) =
              IF "tags" \in write'.data.has
              THEN {parseTags(write'.data.tags).tags[i] :
                        i \in 1..Len(parseTags(write'.data.tags).tags)}
              ELSE TagsOf(event_tags, write'.id)]_vars

\* An event created with the tags 1 and 11 has been updated with "#1".
C20_Witness ==
    /\ write.op = "put" /\ write.status = 200
    /\ write.data = Only("tags", <<"#", "1">>)
    /\ events[write.id].repeat_end_date # NullDate
    /\ TagsOf(event_tags, write.id) = {<<"1">>}

----------------------------------------------------------------------------
(* Properties of parseTags.  They speak of the input drawn and of the tags *)
(* returned for it.                                                        *)

Blank(s) == \A i \in 1..Len(s) : s[i] = " "

Bracketed(s) == startsWith(s, "[") /\ endsWith(s, "]")

\* The maximal runs of word characters that follow a "#": <<i, j>> with "#"
\* at i and the run from i + 1 to j.
HashRuns(s) ==
    {p \in (1..Len(s)) \X (1..Len(s)) :
        /\ s[p[1]] = "#"
        /\ p[2] > p[1]
        /\ \A k \in (p[1] + 1)..p[2] : s[k] \in WordChars
        /\ p[2] = Len(s) \/ s[p[2] + 1] \notin WordChars}

\* The fields between commas: <<i, j>> with the field from i to j (empty
\* when j = i - 1).
CommaFields(s) ==
    {p \in (1..(Len(s) + 1)) \X (0..Len(s)) :
        /\ p[2] >= p[1] - 1
        /\ p[1] = 1 \/ s[p[1] - 1] = ","
        /\ p[2] = Len(s) \/ s[p[2] + 1] = ","
        /\ \A k \in p[1]..p[2] : s[k] # ","}

\* The pieces of s that the pairs of `spans` delimit, from left to right.
Pieces(s, spans) ==
    [k \in 1..Cardinality(spans) |->
        SubSeq(s, (CHOOSE p \in spans : Cardinality({q \in spans : q[1] < p[1]}) = k - 1)[1],
                  (CHOOSE p \in spans : Cardinality({q \in spans : q[1] < p[1]}) = k - 1)[2])]

HashtagsOf(s) == [k \in 1..Cardinality(HashRuns(s)) |-> Tail(Pieces(s, HashRuns(s))[k])]

CommaPartsOf(s) == trimmedNonEmpty(Pieces(s, CommaFields(s)))

\* s without the pair of equal quote characters that wraps it, if one does.
WithoutQuotePair(s) ==
    IF Len(s) >= 2 /\ s[1] = s[Len(s)] /\ s[1] \in {Quote, Apostrophe}
    THEN SubSeq(s, 2, Len(s) - 1)
    ELSE s

\* The conventions after the JSON one, the first that applies.
LaterConvention(s) ==
    IF includes(s, "#") THEN HashtagsOf(s)
    ELSE IF includes(s, ",") THEN CommaPartsOf(s)
    ELSE <<trim(WithoutQuotePair(s))>>

\* C17: parseTags applies the first convention that applies, in the order
\* blank, JSON array literal, hashtags, comma parts, whole input with one
\* wrapping pair of matching quotes removed.
C17_FirstConventionApplies ==
    tagger.pc = "parsed" =>
        tagger.tags =
            IF Blank(tagger.input) THEN <<>>
            ELSE IF Bracketed(trim(tagger.input)) /\ JSONparse(trim(tagger.input)).ok
                 THEN trimmedNonEmpty(JSONparse(trim(tagger.input)).elems)
            ELSE LaterConvention(trim(tagger.input))

\* C18: every tag parseTags returns is non-empty and has no blank at either
\* end.
C18_TagsNonEmptyTrimmed ==
    tagger.pc = "parsed" =>
        \A i \in 1..Len(tagger.tags) :
            /\ Len(tagger.tags[i]) > 0
            /\ tagger.tags[i][1] # " "
            /\ tagger.tags[i][Len(tagger.tags[i])] # " "

\* C19: parseTags never raises, and a bracketed input that is not JSON gets
\* the tags of the next convention that applies.
C19_NeverRaises ==
    tagger.pc = "parsed" =>
        /\ ~tagger.threw
        /\ (Bracketed(trim(tagger.input)) /\ ~JSONparse(trim(tagger.input)).ok)
              => tagger.tags = LaterConvention(trim(tagger.input))

\* "[1,]" is not JSON: the comma parts "[1" and "]".
C19_Witness ==
    /\ tagger.pc = "parsed"
    /\ tagger.input = <<"[", "1", ",", "]">>
    /\ ~tagger.threw
    /\ tagger.tags = <<<<"[", "1">>, <<"]">>>>

\* C21: the tags parseTags returns for one input never hold the same tag
\* twice.
C21_NoDuplicateTags ==
    tagger.pc = "parsed" =>
        \A i, j \in 1..Len(tagger.tags) : i # j => tagger.tags[i] # tagger.tags[j]

----------------------------------------------------------------------------
(* The recurring pre-filter of GET /calendar *)

ExplicitWindow == req.sent /\ req.start # NullDate /\ req.end # NullDate

\* The test of the where clause's entry for events that carry a rule.
CandidateTest(e) ==
    /\ Leq(e.start, windowEnd)
    /\ e.repeat_end_date = NullDate \/ Leq(windowStart, e.repeat_end_date)

\* C23: with an explicit window an event with a rule and a start is selected
\* and expanded iff start <= windowEnd and its repeat end date is absent or
\* >= windowStart; its own start and end are not compared with the window
\* otherwise, and an event that fails the test contributes nothing.
C23_CandidateIffPreFilter ==
    ExplicitWindow =>
        \A e \in Rows :
            (e.rrule # NullRule /\ e.start # NullDate) =>
                /\ e \in selectedOf(Rows, req.start, req.end, req.at) <=> CandidateTest(e)
                /\ OccOf(e.id) = IF CandidateTest(e)
                                 THEN expand(e, windowStart, windowEnd)
                                 ELSE <<>>

\* An event that starts and ends before the window is expanded into it, and
\* one whose repeat end date lies before the window is left out.
C23_Witness ==
    /\ ExplicitWindow
    /\ \E e, f \in Rows :
          /\ Recurring(e) /\ e.end # NullDate /\ Lt(e.end, windowStart)
          /\ Len(OccOf(e.id)) >= 2
          /\ Recurring(f) /\ f.repeat_end_date # NullDate
          /\ Lt(f.repeat_end_date, windowStart)
          /\ OccOf(f.id) = <<>>

\* C24: the nominal occurrence of an event whose expansion fails is in the
\* reply only if the event's own start and end overlap the window.
C24_NominalOnlyIfOverlap ==
    ExplicitWindow =>
        \A c \in Rows :
            (Undecodable(c) /\ c.start # NullDate /\ OccOf(c.id) # <<>>)
                => Overlaps(c, windowStart, windowEnd)

\* C26: for an event whose rule is the generated one and an explicit window,
\* every instant of the series inside the window is in the reply and the
\* event passed the pre-filter; an event that passes the pre-filter without
\* an instant in the window contributes nothing.
C26_PreFilterLosesNothing ==
    ExplicitWindow =>
        \A e \in Rows :
            Recurring(e) =>
                /\ SeriesIn(e, windowStart, windowEnd) # {} =>
                      /\ CandidateTest(e)
                      /\ e \in selectedOf(Rows, req.start, req.end, req.at)
                      /\ \A t \in SeriesIn(e, windowStart, windowEnd) :
                            \E i \in 1..Len(OccOf(e.id)) : OccOf(e.id)[i].start = t
                /\ (CandidateTest(e) /\ SeriesIn(e, windowStart, windowEnd) = {})
                      => OccOf(e.id) = <<>>

\* One event that starts before the window has instants in it; another
\* passes the pre-filter and has none.
C26_Witness ==
    /\ ExplicitWindow
    /\ \E e, f \in Rows :
          /\ Recurring(e) /\ Lt(e.start, windowStart)
          /\ Cardinality(SeriesIn(e, windowStart, windowEnd)) >= 2
          /\ Len(OccOf(e.id)) >= 2
          /\ Recurring(f) /\ CandidateTest(f)
          /\ SeriesIn(f, windowStart, windowEnd) = {}
          /\ OccOf(f.id) = <<>>

----------------------------------------------------------------------------
(* Properties of the stored attributes *)

\* C22: every stored event has a title that is non-empty after trimming.
C22_StoredTitleNonEmpty ==
    \A i \in 1..Len(events) : trim(events[i].title) # <<>>

\* The last request was a PUT that updated event write'.id.
Updated == write'.op = "put" /\ write'.status = 200

\* The body's field f is absent => the column keeps its value.
Kept(f, column) ==
    f \notin write'.data.has => events'[write'.id][column] = events[write'.id][column]

\* The body's field f is present and empty => the column is `null`.
Emptied(f, empty, column, null) ==
    (f \in write'.data.has /\ write'.data[f] = empty) => events'[write'.id][column] = null

\* C25: an update changes only the attributes whose field the body carries,
\* the rule being kept when neither repeat nor repeatEndDate is there, and a
\* field that is there but empty sets its attribute to null.
C25_UpdateTouchesPresentFieldsOnly ==
    [][Updated =>
          /\ Kept("title", "title") /\ Kept("description", "description")
          /\ Kept("startDate", "start") /\ Kept("endDate", "end")
          /\ Kept("allDay", "all_day") /\ Kept("status", "status")
          /\ Kept("alert", "alert_minutes") /\ Kept("category", "category_id")
          /\ Kept("repeat", "repeat_type") /\ Kept("repeatEndDate", "repeat_end_date")
          /\ ("repeat" \notin write'.data.has /\ "repeatEndDate" \notin write'.data.has)
                => events'[write'.id].rrule = events[write'.id].rrule
          /\ Emptied("description", <<>>, "description", NullText)
          /\ Emptied("status", <<>>, "status", NullText)
          /\ Emptied("startDate", NullDate, "start", NullDate)
          /\ Emptied("endDate", NullDate, "end", NullDate)
          /\ Emptied("repeatEndDate", NullDate, "repeat_end_date", NullDate)
          /\ Emptied("alert", "", "alert_minutes", NullInt)
          /\ Emptied("category", <<>>, "category_id", 0)]_vars

----------------------------------------------------------------------------
(* Concurrent updates *)

\* The tags of the body of request k, as a set.
TagsSent(k) ==
    {parseTags(puts[k].body.tags).tags[i] : i \in 1..Len(parseTags(puts[k].body.tags).tags)}

\* C27: once two updates of one event that both carry tags are served, the
\* event's tags are the tags of one of the two bodies.
C27_TagsOfOneUpdate ==
    \A j, k \in 1..Len(puts) :
        (/\ j # k /\ Len(puts) = 2
         /\ puts[j].pc = "done" /\ puts[k].pc = "done"
         /\ puts[j].id = puts[k].id /\ puts[j].id \in 1..Len(events)
         /\ "tags" \in puts[j].body.has /\ "tags" \in puts[k].body.has)
            => TagsOf(event_tags, puts[j].id) \in {TagsSent(j), TagsSent(k)}

----------------------------------------------------------------------------
(* Properties of the users and auth routes.  The rows of `users` from the  *)
(* second on are the users POST /users created.                            *)

\* The conditions under which POST /auth/login issues a token.
LoginAllowed(user, password) ==
    /\ ~user.deleted
    /\ user.is_active
    /\ user.password_hash # NullText
    /\ compare(password, user.password_hash)
    /\ ~(user.must_change_password /\ ~user.is_root_admin)

\* The last request was a login that issued a token.
TokenIssued == account'.op = "login" /\ account'.token

C29_NoWriteWithoutMail ==
    [][/\ account'.mail = "failed" => (account'.status = 500 /\ users' = users)
       /\ (/\ account'.op = "post" /\ Len(users') > Len(users)
           /\ users'[Len(users')].email # NullText) => account'.mail = "sent"
       /\ (/\ account'.op = "put" /\ account'.id \in Live(users)
           /\ users'[account'.id].email # users[account'.id].email
           /\ users'[account'.id].email # NullText) => account'.mail = "sent"]_vars

\* The email of an update of a created user failed: the user is as created.
C29_Witness ==
    /\ account.op = "put" /\ account.mail = "failed" /\ account.status = 500
    /\ account.id >= 2
    /\ users[account.id].email = BobEmail
    /\ users[account.id].role = "user"
    /\ users[account.id].is_active
    /\ users[account.id].password_hash = hash(Secret1)

\* C30: no request removes the root administrator or changes an
\* is_root_admin flag: DELETE of the root administrator answers 403 and
\* leaves the table as it is, and a created user is not root.
C30_RootAdminStays ==
    [][/\ \A i \in 1..Len(users) :
             /\ users[i].is_root_admin => (~users'[i].deleted /\ users'[i].is_root_admin)
             /\ users'[i].is_root_admin => users[i].is_root_admin
       /\ \A i \in (Len(users) + 1)..Len(users') : ~users'[i].is_root_admin
       /\ (/\ account'.op = "delete" /\ account'.id \in Live(users)
           /\ users[account'.id].is_root_admin)
             => (account'.status = 403 /\ users' = users)]_vars

\* A created user was deleted, the root administrator was not.
C30_Witness ==
    /\ account.op = "delete" /\ account.status = 403 /\ account.id = 1
    /\ users[1].is_root_admin /\ ~users[1].deleted
    /\ \E i \in 2..Len(users) : users[i].deleted

====
